---- MODULE Spec2Model ----
(***************************************************************************)
(* Image-location index of the plazas dashboard (imageIndex.js v3.0):      *)
(* index builder, tiered lookup, localStorage persistence with TTL and     *)
(* the version watcher, as asynchronous tasks that interleave at their     *)
(* await points.                                                           *)
(*                                                                         *)
(* Text is a sequence of one-character strings, so that trim, toLowerCase, *)
(* includes and the key pattern are computed and not assumed.  A JSON      *)
(* scalar is a record [t, v]: t is "str", "num", "null" (JSON null) or     *)
(* "undef" (absent property / undefined).                                  *)
(***************************************************************************)
EXTENDS Integers, Sequences, FiniteSets, TLC

\* ------------------------------------------------------------------ bounds
MaxVersion == 2     \* remote versions published: 1..MaxVersion
MaxNow     == 3     \* the clock runs 0..MaxNow

\* ------------------------------------------------------- program constants
\* One clock unit is the TTL (2 hours); the cleanup horizon (7 days, 84
\* units) is scaled down to 2 units and keeps its order: TTL < horizon.
TTL_CACHE_MS    == 1
TTL_LIMPIEZA_MS == 2
\* The period of the polling timer (15 minutes), in units of the timers' own
\* time
INTERVALO_SONDEO == 2
CACHE_PREFIX      == "imagenIndex_v"
CACHE_META_PREFIX == "imagenIndex_meta_v"

\* ------------------------------------------------------------ JSON scalars
Str(s) == [t |-> "str", v |-> s]
Num(n) == [t |-> "num", v |-> <<n>>]
Nulo   == [t |-> "null", v |-> <<>>]
Undef  == [t |-> "undef", v |-> <<>>]

\* a ?? b
Coalesce(a, b) == IF a.t \in {"null", "undef"} THEN b ELSE a

\* JS truthiness of a scalar
Truthy(a) ==
    CASE a.t = "str" -> a.v # <<>>
      [] a.t = "num" -> a.v # <<0>>
      [] OTHER -> FALSE

\* --------------------------------------------------------------------- text
Mayusculas == <<"A", "B", "C", "D", "I", "L", "P", "Q", "X", "Z">>
Minusculas == <<"a", "b", "c", "d", "i", "l", "p", "q", "x", "z">>
Digitos    == {"0", "1", "2", "3", "4", "5", "6", "7", "8", "9"}
Blancos    == {" "}

LowerChar(c) ==
    IF \E i \in 1..Len(Mayusculas) : Mayusculas[i] = c
    THEN Minusculas[CHOOSE i \in 1..Len(Mayusculas) : Mayusculas[i] = c]
    ELSE c

UpperChar(c) ==
    IF \E i \in 1..Len(Minusculas) : Minusculas[i] = c
    THEN Mayusculas[CHOOSE i \in 1..Len(Minusculas) : Minusculas[i] = c]
    ELSE c

\* String.prototype.toLowerCase
toLowerCase(s) == [i \in 1..Len(s) |-> LowerChar(s[i])]

\* String.prototype.trim
trim(s) ==
    LET idx == {i \in 1..Len(s) : s[i] \notin Blancos}
    IN  IF idx = {} THEN <<>>
        ELSE LET a == CHOOSE i \in idx : \A j \in idx : i <= j
                 b == CHOOSE i \in idx : \A j \in idx : i >= j
             IN  SubSeq(s, a, b)

\* String.prototype.includes
includes(s, sub) ==
    \E i \in 0..(Len(s) - Len(sub)) : SubSeq(s, i + 1, i + Len(sub)) = sub

\* String.prototype.padStart(n, '0')
padStart(s, n) ==
    IF Len(s) >= n THEN s ELSE [i \in 1..(n - Len(s)) |-> "0"] \o s

\* ------------------------------------------------------- ordered Map (JS Map)
\* A Map is the sequence of its [k, v] entries in insertion order.
MapHas(m, k) == \E i \in 1..Len(m) : m[i].k = k

MapPos(m, k) == CHOOSE i \in 1..Len(m) : m[i].k = k

\* Map.prototype.set: an existing key keeps its position
MapSet(m, k, val) ==
    IF MapHas(m, k)
    THEN [m EXCEPT ![MapPos(m, k)] = [k |-> k, v |-> val]]
    ELSE Append(m, [k |-> k, v |-> val])

\* img => img.url over an entry list
Urls(archivos) == [i \in 1..Len(archivos) |-> archivos[i].url]

\* ------------------------------------------------------------ index builder
\* _driveUrl
driveUrl(fileId) ==
    Str(<<"https://drive.google.com/thumbnail?id=">> \o fileId.v \o <<"&sz=w800">>)

\* Length of the digit run of s starting at position p
RECURSIVE DigitRun(_, _)
DigitRun(s, p) ==
    IF p <= Len(s) /\ s[p] \in Digitos THEN 1 + DigitRun(s, p + 1) ELSE 0

RECURSIVE BlankRun(_, _)
BlankRun(s, p) ==
    IF p <= Len(s) /\ s[p] \in Blancos THEN 1 + BlankRun(s, p + 1) ELSE 0

\* \d{2,3} followed by "-" at position p: the length taken, 0 when no match
GrupoGuion(s, p) ==
    LET r == DigitRun(s, p)
    IN  IF r \in {2, 3} /\ p + r <= Len(s) /\ s[p + r] = "-" THEN r ELSE 0

\* PATRON = /([A-Za-z1l])-\s*(\d{2,3})-(\d{2,3})-(\d{2,3})/ anchored at p:
\* the groups <<m1, m2, m3, m4>>, or <<>> when it does not match there.
\* p2, p3, p4 are where the digit groups start and g2, g3, g4 their lengths.
PatronEn(s, p) ==
    LET Grupo4(p2, g2, p3, g3, p4, g4) ==
            IF g4 < 2 THEN <<>>
            ELSE << <<s[p]>>, SubSeq(s, p2, p2 + g2 - 1),
                    SubSeq(s, p3, p3 + g3 - 1), SubSeq(s, p4, p4 + g4 - 1) >>
        Corrida4(p2, g2, p3, g3, p4, r4) ==
            Grupo4(p2, g2, p3, g3, p4, IF r4 >= 3 THEN 3 ELSE r4)
        Grupo3(p2, g2, p3, g3) ==
            IF g3 = 0 THEN <<>>
            ELSE Corrida4(p2, g2, p3, g3, p3 + g3 + 1, DigitRun(s, p3 + g3 + 1))
        Grupo2(p2, g2) ==
            IF g2 = 0 THEN <<>>
            ELSE Grupo3(p2, g2, p2 + g2 + 1, GrupoGuion(s, p2 + g2 + 1))
        Desde(p2) == Grupo2(p2, GrupoGuion(s, p2))
    IN  IF ~(p + 1 <= Len(s)) THEN <<>>
        ELSE IF ~((UpperChar(s[p]) # s[p] \/ LowerChar(s[p]) # s[p] \/ s[p] = "1")
                  /\ s[p + 1] = "-") THEN <<>>
        ELSE Desde(p + 2 + BlankRun(s, p + 2))

\* PATRON.exec(nombre): the leftmost match
PatronExec(s) ==
    LET Primero(ps) ==
            IF ps = {} THEN <<>>
            ELSE PatronEn(s, CHOOSE p \in ps : \A q \in ps : p <= q)
    IN  Primero({p \in 1..Len(s) : PatronEn(s, p) # <<>>})

\* Variant of normalizarClaveClienteFallback that gives no key to a name
\* without the pattern (sensitivity of C25)
normalizarClaveClienteFallback_SoloPatron(nombre) ==
    LET Tipo(up) == IF up = "L" \/ up = "1" THEN "I" ELSE up
        ConMatch(m) ==
            IF m = <<>> THEN <<>>
            ELSE toLowerCase(<<Tipo(UpperChar(m[1][1]))>> \o <<"-">>
                             \o padStart(m[2], 2) \o <<"-">>
                             \o padStart(m[3], 3) \o <<"-">>
                             \o padStart(m[4], 2))
    IN  ConMatch(PatronExec(nombre))

\* Variant of normalizarClaveClienteFallback that keeps the letter case of a
\* name without the pattern (sensitivity of C16)
normalizarClaveClienteFallback_SinMinusculas(nombre) ==
    LET Tipo(up) == IF up = "L" \/ up = "1" THEN "I" ELSE up
        ConMatch(m) ==
            IF m = <<>> THEN trim(nombre)
            ELSE toLowerCase(<<Tipo(UpperChar(m[1][1]))>> \o <<"-">>
                             \o padStart(m[2], 2) \o <<"-">>
                             \o padStart(m[3], 3) \o <<"-">>
                             \o padStart(m[4], 2))
    IN  ConMatch(PatronExec(nombre))

\* _normalizarClaveClienteFallback
normalizarClaveClienteFallback(nombre) ==
    LET Tipo(up) == IF up = "L" \/ up = "1" THEN "I" ELSE up
        ConMatch(m) ==
            IF m = <<>> THEN toLowerCase(trim(nombre))
            ELSE toLowerCase(<<Tipo(UpperChar(m[1][1]))>> \o <<"-">>
                             \o padStart(m[2], 2) \o <<"-">>
                             \o padStart(m[3], 3) \o <<"-">>
                             \o padStart(m[4], 2))
    IN  ConMatch(PatronExec(nombre))

\* Result of the tree pass when a statement throws (TypeError on a null
\* entry, a non-text name or alias): the whole pass is abandoned.
Lanzado == [ok |-> FALSE, nuevoIndice |-> <<>>, nuevoAlias |-> <<>>,
            totalCarpetas |-> 0, totalArchivos |-> 0]

\* Lines 750-752: fileId and fileUrl of an item
FileId(item) == Coalesce(item.i, item.id)

FileUrl(item, fileId) ==
    Coalesce(item.mediumUrl,
      Coalesce(item.thumbnailUrl,
        Coalesce(item.directUrl,
          IF Truthy(fileId) /\ fileId.t = "str" THEN driveUrl(fileId) ELSE Nulo)))

\* Variant of RecorrerArchivos that keeps every file with an identifier,
\* whatever its URL (sensitivity of C23)
RECURSIVE RecorrerArchivos_SoloId(_, _, _)
RecorrerArchivos_SoloId(children, i, acc) ==
    LET ConUrl(item, fileId, fileUrl) ==
            IF Truthy(fileId)
            THEN [acc EXCEPT !.archivos = Append(@,
                     [name |-> Coalesce(item.n, item.name),
                      url  |-> fileUrl,
                      size |-> Coalesce(item.s, item.size)])]
            ELSE acc
        ConId(item, fileId) == ConUrl(item, fileId, FileUrl(item, fileId))
        Item(item) ==
            IF item.nulo THEN [acc EXCEPT !.ok = FALSE]
            ELSE RecorrerArchivos_SoloId(children, i + 1, ConId(item, FileId(item)))
    IN  IF i > Len(children) \/ ~acc.ok THEN acc
        ELSE Item(children[i])

\* for (const item of carpeta.children) { ... }   (lines 749-757)
RECURSIVE RecorrerArchivos(_, _, _)
RecorrerArchivos(children, i, acc) ==
    LET ConUrl(item, fileId, fileUrl) ==
            IF Truthy(fileId) /\ Truthy(fileUrl)
            THEN [acc EXCEPT !.archivos = Append(@,
                     [name |-> Coalesce(item.n, item.name),
                      url  |-> fileUrl,
                      size |-> Coalesce(item.s, item.size)])]
            ELSE acc
        ConId(item, fileId) == ConUrl(item, fileId, FileUrl(item, fileId))
        Item(item) ==
            IF item.nulo THEN [acc EXCEPT !.ok = FALSE]
            ELSE RecorrerArchivos(children, i + 1, ConId(item, FileId(item)))
    IN  IF i > Len(children) \/ ~acc.ok THEN acc
        ELSE Item(children[i])

\* Lines 743-744: the key of a folder
ClaveDeCarpeta(carpeta) ==
    Coalesce(carpeta.k,
             Str(normalizarClaveClienteFallback(Coalesce(carpeta.name, Str(<<>>)).v)))

\* Variant of RecorrerCarpetas that records the alias of a folder before it
\* looks at the folder's files (sensitivity of C24)
RECURSIVE RecorrerCarpetas_AliasAntes(_, _, _)
RecorrerCarpetas_AliasAntes(carpetas, i, acc) ==
    LET ConAlias(carpeta, claveNorm) ==
            IF Truthy(carpeta.alias)
            THEN MapSet(acc.nuevoAlias, toLowerCase(carpeta.alias.v), claveNorm.v)
            ELSE acc.nuevoAlias
        Registrar(carpeta, claveNorm, archivos) ==
            [ok |-> TRUE,
             nuevoIndice |-> MapSet(acc.nuevoIndice, claveNorm.v, archivos),
             nuevoAlias  |-> ConAlias(carpeta, claveNorm),
             totalCarpetas |-> acc.totalCarpetas + 1,
             totalArchivos |-> acc.totalArchivos + Len(archivos)]
        ConPasada(carpeta, claveNorm, pasada) ==
            IF ~pasada.ok THEN Lanzado
            ELSE IF Truthy(carpeta.alias) /\ carpeta.alias.t # "str" THEN Lanzado
            ELSE IF Len(pasada.archivos) = 0
                 THEN [acc EXCEPT !.nuevoAlias = ConAlias(carpeta, claveNorm)]
            ELSE Registrar(carpeta, claveNorm, pasada.archivos)
        ConClave(carpeta, claveNorm) ==
            IF ~Truthy(claveNorm) THEN acc
            ELSE ConPasada(carpeta, claveNorm,
                           RecorrerArchivos(carpeta.children, 1,
                                            [ok |-> TRUE, archivos |-> <<>>]))
        Una(carpeta) ==
            IF carpeta.nulo THEN Lanzado
            ELSE IF Len(carpeta.children) = 0 THEN acc
            ELSE IF carpeta.k.t \in {"null", "undef"}
                    /\ Coalesce(carpeta.name, Str(<<>>)).t # "str"
                 THEN Lanzado
            ELSE ConClave(carpeta, ClaveDeCarpeta(carpeta))
    IN  IF i > Len(carpetas) \/ ~acc.ok THEN acc
        ELSE RecorrerCarpetas_AliasAntes(carpetas, i + 1, Una(carpetas[i]))

\* for (const carpeta of nodoEstado.children) { ... }   (lines 739-769)
RECURSIVE RecorrerCarpetas(_, _, _)
RecorrerCarpetas(carpetas, i, acc) ==
    LET Registrar(carpeta, claveNorm, archivos) ==
            [ok |-> TRUE,
             nuevoIndice |-> MapSet(acc.nuevoIndice, claveNorm.v, archivos),
             nuevoAlias  |->
                 IF Truthy(carpeta.alias)
                 THEN MapSet(acc.nuevoAlias, toLowerCase(carpeta.alias.v), claveNorm.v)
                 ELSE acc.nuevoAlias,
             totalCarpetas |-> acc.totalCarpetas + 1,
             totalArchivos |-> acc.totalArchivos + Len(archivos)]
        ConPasada(carpeta, claveNorm, pasada) ==
            IF ~pasada.ok THEN Lanzado
            ELSE IF Len(pasada.archivos) = 0 THEN acc
            ELSE IF Truthy(carpeta.alias) /\ carpeta.alias.t # "str" THEN Lanzado
            ELSE Registrar(carpeta, claveNorm, pasada.archivos)
        ConClave(carpeta, claveNorm) ==
            IF ~Truthy(claveNorm) THEN acc
            ELSE ConPasada(carpeta, claveNorm,
                           RecorrerArchivos(carpeta.children, 1,
                                            [ok |-> TRUE, archivos |-> <<>>]))
        Una(carpeta) ==
            IF carpeta.nulo THEN Lanzado
            ELSE IF Len(carpeta.children) = 0 THEN acc
            ELSE IF carpeta.k.t \in {"null", "undef"}
                    /\ Coalesce(carpeta.name, Str(<<>>)).t # "str"
                 THEN Lanzado
            ELSE ConClave(carpeta, ClaveDeCarpeta(carpeta))
    IN  IF i > Len(carpetas) \/ ~acc.ok THEN acc
        ELSE RecorrerCarpetas(carpetas, i + 1, Una(carpetas[i]))

\* for (const nodoEstado of nodosEstado) { ... }   (lines 736-770)
RECURSIVE RecorrerEstados(_, _, _)
RecorrerEstados(nodos, i, acc) ==
    IF i > Len(nodos) \/ ~acc.ok THEN acc
    ELSE IF nodos[i].nulo THEN Lanzado
    ELSE RecorrerEstados(nodos, i + 1, RecorrerCarpetas(nodos[i].children, 1, acc))

\* _descargarYConstruirIndice after the download: the pass over driveData
descargarYConstruirIndice(driveData) ==
    RecorrerEstados(driveData.structure.children, 1,
        [ok |-> TRUE, nuevoIndice |-> <<>>, nuevoAlias |-> <<>>,
         totalCarpetas |-> 0, totalArchivos |-> 0])

\* ------------------------------------------------------------- remote trees
\* A missing "children" is the empty sequence (both are skipped by the pass).
Archivo(i, n, s) ==
    [nulo |-> FALSE, i |-> i, id |-> Undef, n |-> n, name |-> Undef,
     s |-> s, size |-> Undef,
     mediumUrl |-> Undef, thumbnailUrl |-> Undef, directUrl |-> Undef]

Carpeta(k, name, alias, children) ==
    [nulo |-> FALSE, k |-> k, name |-> name, alias |-> alias, children |-> children]

Estado(children) == [nulo |-> FALSE, children |-> children]

F1 == Archivo(Str(<<"1">>), Str(<<"a">>), Num(1))
F2 == Archivo(Str(<<"2">>), Str(<<"b">>), Num(2))
F3 == Archivo(Str(<<"3">>), Undef, Num(3))
F4 == [Archivo(Undef, Str(<<"d">>), Undef) EXCEPT
          !.id = Str(<<"4">>), !.mediumUrl = Str(<<"m4">>)]
FSinId == Archivo(Undef, Str(<<"x">>), Num(1))

\* The server delivers the keys already normalized in "k" (file header,
\* lines 536-538); a folder of the old format carries only "name".
Arbol1 ==
    [structure |-> [children |-> <<
        Estado(<<
            Carpeta(Str(<<"a", "b">>), Undef, Undef, <<F1, F2>>),
            Carpeta(Str(<<"a", "b", "c">>), Undef, Str(<<"Q">>), <<F3>>) >>) >>]]

Arbol2 ==
    [structure |-> [children |-> <<
        Estado(<<
            Carpeta(Str(<<"a", "b">>), Undef, Undef, <<F1, F2>>),
            Carpeta(Str(<<"c", "d">>), Undef, Str(<<"P">>), <<F4, FSinId>>) >>),
        Estado(<<>>),
        Estado(<<
            Carpeta(Str(<<"a", "b", "c">>), Undef, Str(<<" ", "Q">>), <<F3>>),
            Carpeta(Str(<<"x">>), Undef, Undef, <<>>) >>),
        Estado(<<
            Carpeta(Undef, Str(<<" ", "X", "z", " ">>), Undef, <<F1>>),
            Carpeta(Undef, Str(<<"P", " ", "l", "-", " ", "0", "1", "-", "0", "2", "-", "0", "3">>),
                    Undef, <<F2>>),
            Carpeta(Undef, Str(<<" ">>), Undef, <<F1>>) >>) >>]]

Arbol3 ==
    [structure |-> [children |-> <<
        Estado(<<
            Carpeta(Undef, Str(<<"L", "-", "0", "1", "-", "0", "2", "-", "0", "3">>),
                    Str(<<"A", "B">>), <<F4>>),
            Carpeta(Str(<<"a", "b">>), Undef, Undef, <<F2>>) >>) >>]]

\* A file with a URL and no identifier, and one whose only URL field is ""
FSoloUrl == [Archivo(Undef, Str(<<"u">>), Undef) EXCEPT !.mediumUrl = Str(<<"m", "5">>)]
FUrlVacia == [Archivo(Str(<<"6">>), Str(<<"v">>), Undef) EXCEPT !.mediumUrl = Str(<<>>)]

\* A null entry of a children array
CarpetaNula == [Carpeta(Undef, Undef, Undef, <<>>) EXCEPT !.nulo = TRUE]

\* A payload with parts missing: a region and a folder without children, a
\* folder with neither key nor name, a folder whose name has no key pattern,
\* a folder none of whose files has both identifier and URL, a folder whose
\* alias is its key, and two folders with the same key
Arbol4 ==
    [structure |-> [children |-> <<
        Estado(<<>>),
        Estado(<<
            Carpeta(Undef, Str(<<"C", "d", " ">>), Str(<<"Q">>), <<F3, FSinId>>),
            Carpeta(Str(<<"x">>), Undef, Str(<<"z">>), <<>>),
            Carpeta(Undef, Undef, Str(<<"p">>), <<F2>>),
            Carpeta(Str(<<"a", "b">>), Undef, Str(<<"a", "b">>), <<F1>>),
            Carpeta(Str(<<"b", "a">>), Undef, Str(<<"l">>), <<FSinId, FSoloUrl, FUrlVacia>>),
            Carpeta(Str(<<"c", "d">>), Undef, Undef, <<F4, F2>>) >>) >>]]

\* A payload with a null entry among the folders of a region
Arbol5 ==
    [structure |-> [children |-> <<
        Estado(<<
            Carpeta(Str(<<"a", "b">>), Undef, Undef, <<F1>>),
            CarpetaNula,
            Carpeta(Str(<<"c", "d">>), Undef, Undef, <<F2>>) >>) >>]]

\* A payload with a folder whose alias is a number
Arbol6 ==
    [structure |-> [children |-> <<
        Estado(<<
            Carpeta(Str(<<"a", "b">>), Undef, Undef, <<F1>>),
            Carpeta(Str(<<"c", "d">>), Undef, Num(5), <<F2>>) >>) >>]]

Arboles == <<Arbol1, Arbol2, Arbol3, Arbol4, Arbol5, Arbol6>>

\* The tree the server holds under version number v
ArbolDe(v) == Arboles[((v - 1) % Len(Arboles)) + 1]

\* ------------------------------------------------------------- lookup tiers
\* imagenIndex.get(k): the entry list, <<>> for undefined
MapGet(m, k) == IF MapHas(m, k) THEN m[MapPos(m, k)].v ELSE <<>>

\* Variant of RecorrerParcial in which a candidate at the same distance as
\* the best one replaces it (sensitivity of C29)
RECURSIVE RecorrerParcial_UltimoEmpate(_, _, _, _)
RecorrerParcial_UltimoEmpate(indice, claveNorm, i, st) ==
    IF i > Len(indice) \/ st.fin THEN st
    ELSE LET carpeta  == indice[i].k
             archivos == indice[i].v
             d        == Len(carpeta) - Len(claveNorm)
             score    == IF d < 0 THEN -d ELSE d
         IN  IF (includes(carpeta, claveNorm) \/ includes(claveNorm, carpeta))
                /\ (st.mejorScore = -1 \/ score <= st.mejorScore)
             THEN RecorrerParcial_UltimoEmpate(indice, claveNorm, i + 1,
                      [mejorScore |-> score, mejorArchivos |-> archivos,
                       hay |-> TRUE, fin |-> (score = 0)])
             ELSE RecorrerParcial_UltimoEmpate(indice, claveNorm, i + 1, st)

\* for (const [carpeta, archivos] of imagenIndex.entries()) { ... }
\* st = [mejorScore, mejorArchivos, hay, fin]; mejorScore = -1 is Infinity
RECURSIVE RecorrerParcial(_, _, _, _)
RecorrerParcial(indice, claveNorm, i, st) ==
    IF i > Len(indice) \/ st.fin THEN st
    ELSE LET carpeta  == indice[i].k
             archivos == indice[i].v
             d        == Len(carpeta) - Len(claveNorm)
             score    == IF d < 0 THEN -d ELSE d
         IN  IF (includes(carpeta, claveNorm) \/ includes(claveNorm, carpeta))
                /\ (st.mejorScore = -1 \/ score < st.mejorScore)
             THEN RecorrerParcial(indice, claveNorm, i + 1,
                      [mejorScore |-> score, mejorArchivos |-> archivos,
                       hay |-> TRUE, fin |-> (score = 0)])
             ELSE RecorrerParcial(indice, claveNorm, i + 1, st)

\* Variant of busquedaParcial that takes the first stored key in a substring
\* relation with the query, whatever its length (sensitivity of C18)
busquedaParcial_PrimerCandidato(indice, claveNorm) ==
    LET cand == {i \in 1..Len(indice) :
                    includes(indice[i].k, claveNorm) \/ includes(claveNorm, indice[i].k)}
    IN  IF cand = {} THEN <<>>
        ELSE Urls(indice[CHOOSE i \in cand : \A j \in cand : i <= j].v)

\* _busquedaParcial
busquedaParcial(indice, claveNorm) ==
    LET st == RecorrerParcial(indice, claveNorm, 1,
                  [mejorScore |-> -1, mejorArchivos |-> <<>>,
                   hay |-> FALSE, fin |-> FALSE])
    IN  IF ~st.hay THEN <<>> ELSE Urls(st.mejorArchivos)

\* Variant of Niveles123 without the exact tier (sensitivity of C1)
Niveles123_SinExacta(indice, alias, claveNorm) ==
    LET porAlias == MapGet(alias, claveNorm)
        desde    == MapGet(indice, porAlias)
        parcial  == busquedaParcial(indice, claveNorm)
    IN  IF MapHas(alias, claveNorm) /\ Len(porAlias) > 0 /\ Len(desde) > 0
        THEN [tier |-> "alias", urls |-> Urls(desde)]
        ELSE IF Len(parcial) > 0 THEN [tier |-> "parcial", urls |-> parcial]
        ELSE [tier |-> "ninguno", urls |-> <<>>]

\* findImageUrls, lines 627-646: tiers 1-3 over the in-memory maps.
\* [tier, urls]; tier "ninguno" when the three miss.
Niveles123(indice, alias, claveNorm) ==
    LET exacto   == MapGet(indice, claveNorm)
        porAlias == MapGet(alias, claveNorm)
        desde    == MapGet(indice, porAlias)
        parcial  == busquedaParcial(indice, claveNorm)
    IN  IF Len(exacto) > 0 THEN [tier |-> "exacta", urls |-> Urls(exacto)]
        ELSE IF MapHas(alias, claveNorm) /\ Len(porAlias) > 0 /\ Len(desde) > 0
             THEN [tier |-> "alias", urls |-> Urls(desde)]
        ELSE IF Len(parcial) > 0 THEN [tier |-> "parcial", urls |-> parcial]
        ELSE [tier |-> "ninguno", urls |-> <<>>]

\* The rows /api/imagenes-local holds, by key
ImagenesLocalesDB(clave) ==
    IF clave = <<"z", "z">> THEN << Str(<<"/local/zz.jpg">>) >> ELSE <<>>

\* Variant of buscarImagenesLocales that lets a failed request through as an
\* error value instead of the empty list (sensitivity of C11)
buscarImagenesLocales_SinCaptura(clave, ok) ==
    IF ~ok THEN << [t |-> "error", v |-> <<>>] >>
    ELSE IF Len(ImagenesLocalesDB(clave)) > 0 THEN ImagenesLocalesDB(clave) ELSE <<>>

\* _buscarImagenesLocales: ok is whether the request succeeded (res.ok)
buscarImagenesLocales(clave, ok) ==
    IF ok /\ Len(ImagenesLocalesDB(clave)) > 0 THEN ImagenesLocalesDB(clave) ELSE <<>>

\* --------------------------------------------------------------------- JSON
\* Variant of ObjetoJSON that writes an undefined property as null
\* (sensitivity of C5)
ObjetoJSON_ConNulos(img) ==
    << <<"name", IF img.name.t = "undef" THEN Nulo ELSE img.name>>,
       <<"url",  IF img.url.t = "undef" THEN Nulo ELSE img.url>>,
       <<"size", IF img.size.t = "undef" THEN Nulo ELSE img.size>> >>

\* JSON.stringify of an IndexEntry: the properties in order, undefined dropped
ObjetoJSON(img) ==
    (IF img.name.t = "undef" THEN <<>> ELSE << <<"name", img.name>> >>)
    \o (IF img.url.t = "undef" THEN <<>> ELSE << <<"url", img.url>> >>)
    \o (IF img.size.t = "undef" THEN <<>> ELSE << <<"size", img.size>> >>)

\* obj[prop] of a parsed object
Prop(obj, prop) ==
    IF \E i \in 1..Len(obj) : obj[i][1] = prop
    THEN obj[CHOOSE i \in 1..Len(obj) : obj[i][1] = prop][2]
    ELSE Undef

EntradaDeJSON(obj) ==
    [name |-> Prop(obj, "name"), url |-> Prop(obj, "url"), size |-> Prop(obj, "size")]

\* JSON.stringify(Array.from(imagenIndex.entries()))
StringifyIndice(indice) ==
    [kind |-> "json",
     arr  |-> [i \in 1..Len(indice) |->
                 << indice[i].k,
                    [j \in 1..Len(indice[i].v) |-> ObjetoJSON(indice[i].v[j])] >>]]

\* JSON.stringify(Array.from(aliasIndex.entries()))
StringifyAlias(alias) ==
    [kind |-> "json", arr |-> [i \in 1..Len(alias) |-> << alias[i].k, alias[i].v >>]]

\* new Map(pairs): the pairs set one after the other
RECURSIVE NewMap(_, _, _)
NewMap(pairs, i, m) ==
    IF i > Len(pairs) THEN m
    ELSE NewMap(pairs, i + 1, MapSet(m, pairs[i][1], pairs[i][2]))

\* new Map(JSON.parse(cachedIndex))
ParseIndice(val) ==
    NewMap([i \in 1..Len(val.arr) |->
              << val.arr[i][1],
                 [j \in 1..Len(val.arr[i][2]) |-> EntradaDeJSON(val.arr[i][2][j])] >>],
           1, <<>>)

\* new Map(JSON.parse(cachedAlias))
ParseAlias(val) == NewMap(val.arr, 1, <<>>)

\* ------------------------------------------------------------- localStorage
\* The store is the sequence of its [key, val] items in enumeration order
\* (localStorage.key(i) is item i+1); a new key goes to the end.  A key is
\* the sequence of the pieces it is concatenated from.
ClaveIndice(ver) == <<CACHE_PREFIX, ver>>
ClaveAlias(ver)  == <<CACHE_PREFIX, "alias_", ver>>
ClaveMeta(ver)   == <<CACHE_META_PREFIX, ver>>

Ausente == [kind |-> "ausente"]

HasItem(st, key) == \E i \in 1..Len(st) : st[i].key = key

\* localStorage.getItem: Ausente for null
getItem(st, key) ==
    IF HasItem(st, key) THEN st[CHOOSE i \in 1..Len(st) : st[i].key = key].val
    ELSE Ausente

\* localStorage.setItem
setItem(st, key, val) ==
    IF HasItem(st, key)
    THEN [i \in 1..Len(st) |-> IF st[i].key = key THEN [key |-> key, val |-> val] ELSE st[i]]
    ELSE Append(st, [key |-> key, val |-> val])

\* localStorage.removeItem
removeItem(st, key) == SelectSeq(st, LAMBDA it : it.key # key)

\* JSON.parse(text) succeeds
Parseable(val) == val.kind \in {"json", "meta"}

\* --------------------------------------------------------- persistence layer
\* The operations below work on M, the module state they read and write:
\* [imagenIndex, aliasIndex, driveTreeVersion, storage] and, for the
\* properties, og: where each of the three came from (<<kind, label, tree>>).
SinOrigen == <<"ninguno", "null", 0>>

\* Variant of cargarDesdeCacheLocal whose TTL test is ">" (sensitivity of C6)
cargarDesdeCacheLocal_TTLInclusivo(M, versionActual, ahora) ==
    LET cachedIndex == getItem(M.storage, ClaveIndice(versionActual))
        cachedAlias == getItem(M.storage, ClaveAlias(versionActual))
        cachedMeta  == getItem(M.storage, ClaveMeta(versionActual))
    IN  IF cachedIndex = Ausente \/ cachedMeta = Ausente THEN [cargado |-> FALSE, M |-> M]
        ELSE IF ~Parseable(cachedMeta) \/ ~Parseable(cachedIndex)
             THEN [cargado |-> FALSE, M |-> M]
        ELSE IF ahora - cachedMeta.timestamp > TTL_CACHE_MS THEN [cargado |-> FALSE, M |-> M]
        ELSE [cargado |-> TRUE,
              M |-> [M EXCEPT
                       !.imagenIndex = ParseIndice(cachedIndex),
                       !.aliasIndex = IF cachedAlias # Ausente /\ Parseable(cachedAlias)
                                      THEN ParseAlias(cachedAlias) ELSE <<>>,
                       !.driveTreeVersion = versionActual,
                       !.og = [indice  |-> <<"cache", versionActual, cachedIndex.de>>,
                               alias   |-> <<"cache", versionActual, cachedIndex.de>>,
                               version |-> <<"cache", versionActual, cachedIndex.de>>]]]

\* _cargarDesdeCacheLocal: [cargado, M]
cargarDesdeCacheLocal(M, versionActual, ahora) ==
    LET cachedIndex == getItem(M.storage, ClaveIndice(versionActual))
        cachedAlias == getItem(M.storage, ClaveAlias(versionActual))
        cachedMeta  == getItem(M.storage, ClaveMeta(versionActual))
        conIndice   == [M EXCEPT !.imagenIndex = ParseIndice(cachedIndex),
                                 !.og.indice = <<"cache", versionActual, cachedIndex.de>>]
    IN  IF cachedIndex = Ausente \/ cachedMeta = Ausente THEN [cargado |-> FALSE, M |-> M]
        ELSE IF ~Parseable(cachedMeta) THEN [cargado |-> FALSE, M |-> M]
        ELSE IF ahora - cachedMeta.timestamp >= TTL_CACHE_MS THEN [cargado |-> FALSE, M |-> M]
        ELSE IF ~Parseable(cachedIndex) THEN [cargado |-> FALSE, M |-> M]
        ELSE IF cachedAlias # Ausente /\ ~Parseable(cachedAlias)
             THEN [cargado |-> FALSE, M |-> conIndice]
        ELSE [cargado |-> TRUE,
              M |-> [conIndice EXCEPT
                       !.aliasIndex = IF cachedAlias # Ausente
                                      THEN ParseAlias(cachedAlias) ELSE <<>>,
                       !.og.alias = IF cachedAlias # Ausente
                                    THEN <<"cache", versionActual, cachedAlias.de>>
                                    ELSE <<"cache", versionActual, cachedIndex.de>>,
                       !.driveTreeVersion = versionActual,
                       !.og.version = <<"cache", versionActual, cachedIndex.de>>]]

\* The cleanup loop of _guardarEnCacheLocal, lines 814-826, from index i down
RECURSIVE LimpiarDesde(_, _, _)
LimpiarDesde(st, i, ahora) ==
    IF i < 0 THEN st
    ELSE IF i + 1 > Len(st) THEN LimpiarDesde(st, i - 1, ahora)
    ELSE LET key == st[i + 1].key
             val == st[i + 1].val
         IN  IF key[1] # CACHE_META_PREFIX THEN LimpiarDesde(st, i - 1, ahora)
             ELSE IF ~Parseable(val) THEN LimpiarDesde(st, i - 1, ahora)
             ELSE IF ahora - val.timestamp > TTL_LIMPIEZA_MS
                  THEN LET ver == key[2]
                       IN  LimpiarDesde(
                             removeItem(removeItem(removeItem(st, ClaveIndice(ver)),
                                                   ClaveAlias(ver)), key),
                             i - 1, ahora)
                  ELSE LimpiarDesde(st, i - 1, ahora)

\* Size of an index: the number of image entries it holds (what the length
\* of its serialization grows with)
RECURSIVE Tamano(_)
Tamano(indice) ==
    IF Len(indice) = 0 THEN 0 ELSE Len(Head(indice).v) + Tamano(Tail(indice))

\* A size ceiling for persistence, placed between the sizes of the indices
\* the trees produce: the first tree's index fits, the second one's does not
TechoEntradas == Tamano(descargarYConstruirIndice(Arbol1).nuevoIndice)

\* Variant of guardarEnCacheLocal that skips persistence above the ceiling
\* (sensitivity of C7)
guardarEnCacheLocal_ConTecho(M, versionActual, totalCarpetas, totalArchivos, ahora, escrituras) ==
    LET de == M.og.indice[3]
        s1 == setItem(M.storage, ClaveIndice(versionActual),
                      StringifyIndice(M.imagenIndex) @@ [de |-> de, mem |-> M.imagenIndex])
        s2 == setItem(s1, ClaveAlias(versionActual),
                      StringifyAlias(M.aliasIndex) @@ [de |-> de, mem |-> M.aliasIndex])
        s3 == setItem(s2, ClaveMeta(versionActual),
                      [kind |-> "meta", timestamp |-> ahora, version |-> versionActual,
                       carpetas |-> totalCarpetas, archivos |-> totalArchivos])
    IN  IF versionActual = "unknown" \/ Tamano(M.imagenIndex) > TechoEntradas THEN M
        ELSE IF escrituras = 0 THEN M
        ELSE IF escrituras = 1 THEN [M EXCEPT !.storage = s1]
        ELSE IF escrituras = 2 THEN [M EXCEPT !.storage = s2]
        ELSE [M EXCEPT !.storage = LimpiarDesde(s3, Len(s3) - 1, ahora)]

\* Variant of the cleanup loop whose horizon test is ">=" (sensitivity of C15)
RECURSIVE LimpiarInclusivo(_, _, _)
LimpiarInclusivo(st, i, ahora) ==
    IF i < 0 THEN st
    ELSE IF i + 1 > Len(st) THEN LimpiarInclusivo(st, i - 1, ahora)
    ELSE LET key == st[i + 1].key
             val == st[i + 1].val
         IN  IF key[1] # CACHE_META_PREFIX THEN LimpiarInclusivo(st, i - 1, ahora)
             ELSE IF ~Parseable(val) THEN LimpiarInclusivo(st, i - 1, ahora)
             ELSE IF ahora - val.timestamp >= TTL_LIMPIEZA_MS
                  THEN LET ver == key[2]
                       IN  LimpiarInclusivo(
                             removeItem(removeItem(removeItem(st, ClaveIndice(ver)),
                                                   ClaveAlias(ver)), key),
                             i - 1, ahora)
                  ELSE LimpiarInclusivo(st, i - 1, ahora)

guardarEnCacheLocal_HorizonteInclusivo(M, versionActual, totalCarpetas, totalArchivos, ahora, escrituras) ==
    LET de == M.og.indice[3]
        s1 == setItem(M.storage, ClaveIndice(versionActual),
                      StringifyIndice(M.imagenIndex) @@ [de |-> de, mem |-> M.imagenIndex])
        s2 == setItem(s1, ClaveAlias(versionActual),
                      StringifyAlias(M.aliasIndex) @@ [de |-> de, mem |-> M.aliasIndex])
        s3 == setItem(s2, ClaveMeta(versionActual),
                      [kind |-> "meta", timestamp |-> ahora, version |-> versionActual,
                       carpetas |-> totalCarpetas, archivos |-> totalArchivos])
    IN  IF versionActual = "unknown" THEN M
        ELSE IF escrituras = 0 THEN M
        ELSE IF escrituras = 1 THEN [M EXCEPT !.storage = s1]
        ELSE IF escrituras = 2 THEN [M EXCEPT !.storage = s2]
        ELSE [M EXCEPT !.storage = LimpiarInclusivo(s3, Len(s3) - 1, ahora)]

\* _guardarEnCacheLocal on M; escrituras is how many setItem calls succeed
\* before one throws QuotaExceededError (3: none throws).  For the properties
\* only, a payload also carries "de", the tree it was built from, and "mem",
\* the in-memory map it is the serialization of; the code paths do not read them.
guardarEnCacheLocal(M, versionActual, totalCarpetas, totalArchivos, ahora, escrituras) ==
    LET de == M.og.indice[3]
        s1 == setItem(M.storage, ClaveIndice(versionActual),
                      StringifyIndice(M.imagenIndex) @@ [de |-> de, mem |-> M.imagenIndex])
        s2 == setItem(s1, ClaveAlias(versionActual),
                      StringifyAlias(M.aliasIndex) @@ [de |-> de, mem |-> M.aliasIndex])
        s3 == setItem(s2, ClaveMeta(versionActual),
                      [kind |-> "meta", timestamp |-> ahora, version |-> versionActual,
                       carpetas |-> totalCarpetas, archivos |-> totalArchivos])
    IN  IF versionActual = "unknown" THEN M
        ELSE IF escrituras = 0 THEN M
        ELSE IF escrituras = 1 THEN [M EXCEPT !.storage = s1]
        ELSE IF escrituras = 2 THEN [M EXCEPT !.storage = s2]
        ELSE [M EXCEPT !.storage = LimpiarDesde(s3, Len(s3) - 1, ahora)]

\* The scan of _cargarFallbackLocal, lines 834-849, from item i: [cargado, M]
RECURSIVE FallbackDesde(_, _)
FallbackDesde(M, i) ==
    IF i > Len(M.storage) THEN [cargado |-> FALSE, M |-> M]
    ELSE LET key == M.storage[i].key
         IN  IF key[1] # CACHE_PREFIX \/ key[1] = CACHE_META_PREFIX
                \/ (\E j \in 1..Len(key) : key[j] = "alias_")
             THEN FallbackDesde(M, i + 1)
             ELSE LET ver         == key[2]
                      cachedIndex == getItem(M.storage, key)
                      cachedAlias == getItem(M.storage, ClaveAlias(ver))
                      cachedMeta  == getItem(M.storage, ClaveMeta(ver))
                      conIndice   == [M EXCEPT
                                        !.imagenIndex = ParseIndice(cachedIndex),
                                        !.og.indice = <<"fallback", ver, cachedIndex.de>>]
                  IN  IF cachedMeta = Ausente THEN FallbackDesde(M, i + 1)
                      ELSE IF ~Parseable(cachedMeta) \/ ~Parseable(cachedIndex)
                           THEN [cargado |-> FALSE, M |-> M]
                      ELSE IF cachedAlias # Ausente /\ ~Parseable(cachedAlias)
                           THEN [cargado |-> FALSE, M |-> conIndice]
                      ELSE [cargado |-> TRUE,
                            M |-> [conIndice EXCEPT
                                     !.aliasIndex = IF cachedAlias # Ausente
                                                    THEN ParseAlias(cachedAlias) ELSE <<>>,
                                     !.og.alias = IF cachedAlias # Ausente
                                                  THEN <<"fallback", ver, cachedAlias.de>>
                                                  ELSE <<"fallback", ver, cachedIndex.de>>,
                                     !.driveTreeVersion = ver,
                                     !.og.version = <<"fallback", ver, cachedIndex.de>>]]

\* Variant of the scan that runs from the last item down (sensitivity of C8)
RECURSIVE FallbackHacia(_, _)
FallbackHacia(M, i) ==
    IF i < 1 THEN [cargado |-> FALSE, M |-> M]
    ELSE LET key == M.storage[i].key
             ver == key[2]
             cachedIndex == getItem(M.storage, key)
             cachedAlias == getItem(M.storage, ClaveAlias(ver))
             cachedMeta  == getItem(M.storage, ClaveMeta(ver))
         IN  IF Len(key) # 2 \/ key[1] # CACHE_PREFIX THEN FallbackHacia(M, i - 1)
             ELSE IF cachedMeta = Ausente THEN FallbackHacia(M, i - 1)
             ELSE IF ~Parseable(cachedMeta) \/ ~Parseable(cachedIndex)
                  THEN [cargado |-> FALSE, M |-> M]
             ELSE [cargado |-> TRUE,
                   M |-> [M EXCEPT
                            !.imagenIndex = ParseIndice(cachedIndex),
                            !.aliasIndex = IF cachedAlias # Ausente /\ Parseable(cachedAlias)
                                           THEN ParseAlias(cachedAlias) ELSE <<>>,
                            !.driveTreeVersion = ver,
                            !.og = [indice  |-> <<"fallback", ver, cachedIndex.de>>,
                                    alias   |-> <<"fallback", ver, cachedIndex.de>>,
                                    version |-> <<"fallback", ver, cachedIndex.de>>]]]

cargarFallbackLocal_DesdeElFinal(M) == FallbackHacia(M, Len(M.storage))

\* _cargarFallbackLocal
cargarFallbackLocal(M) == FallbackDesde(M, 1)

\* ------------------------------------------------------- construirIndiceImagenes
Resultado(success, fromCache, isFallback, via) ==
    [success |-> success, fromCache |-> fromCache, isFallback |-> isFallback, via |-> via]

\* Version token of remote version number v (d.version)
Token(v) == ToString(v)

\* Variant of construirTrasVersion in which a forced build still restores a
\* fresh persisted record (sensitivity of C21)
construirTrasVersion_ForzadaUsaCache(M, forzarRecarga, versionActual, ahora) ==
    IF ~forzarRecarga /\ M.driveTreeVersion = versionActual /\ Len(M.imagenIndex) > 0
    THEN [paso |-> "retorna", res |-> Resultado(TRUE, TRUE, FALSE, "memoria"), M |-> M]
    ELSE IF versionActual # "unknown"
         THEN LET r == cargarDesdeCacheLocal(M, versionActual, ahora)
              IN  IF r.cargado
                  THEN [paso |-> "retorna", res |-> Resultado(TRUE, TRUE, FALSE, "cache"),
                        M |-> r.M]
                  ELSE [paso |-> "descarga", res |-> Resultado(FALSE, FALSE, FALSE, ""),
                        M |-> r.M]
         ELSE [paso |-> "descarga", res |-> Resultado(FALSE, FALSE, FALSE, ""), M |-> M]

\* Variant of construirTrasVersion whose in-memory short cut does not compare
\* the held version with the one just fetched (sensitivity of C17)
construirTrasVersion_SinComparar(M, forzarRecarga, versionActual, ahora) ==
    IF ~forzarRecarga /\ Len(M.imagenIndex) > 0
    THEN [paso |-> "retorna", res |-> Resultado(TRUE, TRUE, FALSE, "memoria"), M |-> M]
    ELSE IF ~forzarRecarga /\ versionActual # "unknown"
         THEN LET r == cargarDesdeCacheLocal(M, versionActual, ahora)
              IN  IF r.cargado
                  THEN [paso |-> "retorna", res |-> Resultado(TRUE, TRUE, FALSE, "cache"),
                        M |-> r.M]
                  ELSE [paso |-> "descarga", res |-> Resultado(FALSE, FALSE, FALSE, ""),
                        M |-> r.M]
         ELSE [paso |-> "descarga", res |-> Resultado(FALSE, FALSE, FALSE, ""), M |-> M]

\* Lines 581-588, run when the version request settles: either the call
\* returns (paso "retorna") or it goes on to download the tree.
construirTrasVersion(M, forzarRecarga, versionActual, ahora) ==
    IF ~forzarRecarga /\ M.driveTreeVersion = versionActual /\ Len(M.imagenIndex) > 0
    THEN [paso |-> "retorna", res |-> Resultado(TRUE, TRUE, FALSE, "memoria"), M |-> M]
    ELSE IF ~forzarRecarga /\ versionActual # "unknown"
         THEN LET r == cargarDesdeCacheLocal(M, versionActual, ahora)
              IN  IF r.cargado
                  THEN [paso |-> "retorna", res |-> Resultado(TRUE, TRUE, FALSE, "cache"),
                        M |-> r.M]
                  ELSE [paso |-> "descarga", res |-> Resultado(FALSE, FALSE, FALSE, ""),
                        M |-> r.M]
         ELSE [paso |-> "descarga", res |-> Resultado(FALSE, FALSE, FALSE, ""), M |-> M]

\* Variant of construirTrasArbol that reports success when the download
\* failed and nothing could be loaded (sensitivity of C12)
construirTrasArbol_ErrorComoExito(M, versionActual, descargaOk, arbol, ahora, escrituras) ==
    LET Instalado(r) ==
            [M EXCEPT !.imagenIndex = r.nuevoIndice,
                      !.aliasIndex = r.nuevoAlias,
                      !.driveTreeVersion = versionActual,
                      !.og = [indice  |-> <<"red", versionActual, arbol>>,
                              alias   |-> <<"red", versionActual, arbol>>,
                              version |-> <<"red", versionActual, arbol>>]]
        Fallback(f) ==
            IF f.cargado
            THEN [res |-> Resultado(TRUE, TRUE, TRUE, "fallback"), M |-> f.M]
            ELSE [res |-> Resultado(TRUE, FALSE, FALSE, "error"), M |-> f.M]
        TrasDescarga(r) ==
            IF descargaOk /\ r.ok
            THEN [res |-> Resultado(TRUE, FALSE, FALSE, "red"),
                  M   |-> guardarEnCacheLocal(Instalado(r), versionActual, r.totalCarpetas,
                                              r.totalArchivos, ahora, escrituras)]
            ELSE Fallback(cargarFallbackLocal(M))
    IN  TrasDescarga(descargarYConstruirIndice(ArbolDe(arbol)))

\* Variant of construirTrasArbol in which a setItem that throws is not caught
\* by _guardarEnCacheLocal and reaches the catch of the build (sensitivity
\* of C13)
construirTrasArbol_GuardarLanza(M, versionActual, descargaOk, arbol, ahora, escrituras) ==
    LET Instalado(r) ==
            [M EXCEPT !.imagenIndex = r.nuevoIndice,
                      !.aliasIndex = r.nuevoAlias,
                      !.driveTreeVersion = versionActual,
                      !.og = [indice  |-> <<"red", versionActual, arbol>>,
                              alias   |-> <<"red", versionActual, arbol>>,
                              version |-> <<"red", versionActual, arbol>>]]
        Fallback(f) ==
            IF f.cargado
            THEN [res |-> Resultado(TRUE, TRUE, TRUE, "fallback"), M |-> f.M]
            ELSE [res |-> Resultado(FALSE, FALSE, FALSE, "error"), M |-> f.M]
        Guardado(G) ==
            IF versionActual # "unknown" /\ escrituras < 3
            THEN Fallback(cargarFallbackLocal(G))
            ELSE [res |-> Resultado(TRUE, FALSE, FALSE, "red"), M |-> G]
        TrasDescarga(r) ==
            IF descargaOk /\ r.ok
            THEN Guardado(guardarEnCacheLocal(Instalado(r), versionActual, r.totalCarpetas,
                                              r.totalArchivos, ahora, escrituras))
            ELSE Fallback(cargarFallbackLocal(M))
    IN  TrasDescarga(descargarYConstruirIndice(ArbolDe(arbol)))

\* Lines 590-610, run when the tree request settles.  descargaOk: the
\* request succeeded (res.ok); arbol: the version number of the tree served.
construirTrasArbol(M, versionActual, descargaOk, arbol, ahora, escrituras) ==
    LET Instalado(r) ==
            [M EXCEPT !.imagenIndex = r.nuevoIndice,
                      !.aliasIndex = r.nuevoAlias,
                      !.driveTreeVersion = versionActual,
                      !.og = [indice  |-> <<"red", versionActual, arbol>>,
                              alias   |-> <<"red", versionActual, arbol>>,
                              version |-> <<"red", versionActual, arbol>>]]
        Fallback(f) ==
            IF f.cargado
            THEN [res |-> Resultado(TRUE, TRUE, TRUE, "fallback"), M |-> f.M]
            ELSE [res |-> Resultado(FALSE, FALSE, FALSE, "error"), M |-> f.M]
        TrasDescarga(r) ==
            IF descargaOk /\ r.ok
            THEN [res |-> Resultado(TRUE, FALSE, FALSE, "red"),
                  M   |-> guardarEnCacheLocal(Instalado(r), versionActual, r.totalCarpetas,
                                              r.totalArchivos, ahora, escrituras)]
            ELSE Fallback(cargarFallbackLocal(M))
    IN  TrasDescarga(descargarYConstruirIndice(ArbolDe(arbol)))

\* Variant of verificarActualizacionIndice whose comparison is inverted
\* (sensitivity of C22)
verificarActualizacionIndice_Invertida(heldVersion, ok, remota) ==
    ok /\ Token(remota) = heldVersion

\* Variant of verificarActualizacionIndice that asks for an update when its
\* request fails (sensitivity of C4)
verificarActualizacionIndice_ErrorActualiza(heldVersion, ok, remota) ==
    ~ok \/ Token(remota) # heldVersion

\* verificarActualizacionIndice when its request settles: necesitaActualizar
verificarActualizacionIndice(heldVersion, ok, remota) ==
    ok /\ Token(remota) # heldVersion


\* ==================================================================== state
VARIABLES
    imagenIndex,            \* Map k -> [{name, url, size}]
    aliasIndex,             \* Map alias.lower() -> k
    driveTreeVersion,       \* "null", "unknown" or a version token
    actualizacionInterval,  \* TRUE while the 15-minute timer is registered
    temporizadores,         \* the interval timers alive in the page: time left to the next run of each
    desdeSondeo,            \* observation: time since the timer callback last started in this page
    botonVisible,           \* the refresh button has lost its "hidden" class
    storage,                \* localStorage
    ahora,                  \* Date.now()
    remoteVersion,          \* version number the server holds
    tareas,                 \* the asynchronous calls and where each one waits
    busq,                   \* observation: the findImageUrls call in progress or last returned
    ult,                    \* observation: the last step of a construirIndiceImagenes call
    og,                     \* observation: where index, alias and version were taken from
    vista                   \* observation: the version token the last successful version request returned

vars == <<imagenIndex, aliasIndex, driveTreeVersion, actualizacionInterval,
          temporizadores, desdeSondeo,
          botonVisible, storage, ahora, remoteVersion, tareas, busq, ult, og, vista>>

\* inicio: the startup callback of main.js; busqueda: a findImageUrls call;
\* intervalo: the setInterval callback; boton: the click handler.
Tareas == {"inicio", "busqueda", "intervalo", "boton"}

\* Keys the user types
Consultas == { <<"a", "b">>, <<"Q">>, <<"p">>, <<" ", "q">>, <<"z", "z">> }

\* Keys that differ from a stored key in case and blanks, that only a
\* substring scan resolves, that nothing resolves, and a blank one
ConsultasNiveles ==
    { <<" ">>, <<" ", "A", "b">>, <<"X", "z", " ">>, <<"a", "b", "c", "d">>,
      <<"p">>, <<"z", "z">> }

\* Keys that contain two stored keys of the same length, and one that is in
\* a substring relation with a single stored key
ConsultasArbol == { <<"a", "b", "c", "d">>, <<"B">>, <<"x", "z">> }

MEM == [imagenIndex |-> imagenIndex, aliasIndex |-> aliasIndex,
        driveTreeVersion |-> driveTreeVersion, storage |-> storage, og |-> og]

Instalar(M) ==
    /\ imagenIndex' = M.imagenIndex
    /\ aliasIndex' = M.aliasIndex
    /\ driveTreeVersion' = M.driveTreeVersion
    /\ storage' = M.storage
    /\ og' = M.og

\* M differs from the module state in index, alias or version
Tocado(M) ==
    \/ M.imagenIndex # imagenIndex
    \/ M.aliasIndex # aliasIndex
    \/ M.driveTreeVersion # driveTreeVersion
    \/ M.og # og

\* primera: the outcome of the build a lookup runs on an empty index
\* (line 623): "ok", "fallo", or "" while there is none
BusqInicial ==
    [fase |-> "nunca", clave |-> <<>>, norm |-> <<>>, tier |-> "", urls |-> <<>>,
     construcciones |-> 0, forzadas |-> 0,
     verifico |-> FALSE, checkOk |-> FALSE, vistaRemota |-> "", vistaLocal |-> "",
     localLlamado |-> FALSE,
     vacio |-> FALSE, difiere |-> FALSE, origen |-> "ninguno",
     enIndice |-> FALSE, esperado |-> <<>>,
     esAlias |-> FALSE, esperadoAlias |-> <<>>,
     fallos |-> FALSE, remotoCambio |-> FALSE, tocado |-> FALSE,
     primera |-> "",
     ant |-> [valida |-> FALSE, urls |-> <<>>]]

\* ahora and antes are set by a build whose three writes succeeded: the time
\* of the save and the store as it was before it
UltInicial ==
    [via |-> "", t |-> "", forzarRecarga |-> FALSE, versionActual |-> "",
     success |-> FALSE, fromCache |-> FALSE, isFallback |-> FALSE,
     habiaIndice |-> FALSE, habiaMeta |-> FALSE, edad |-> -1, cambio |-> FALSE,
     descargaOk |-> FALSE, escrituras |-> -1, escribio |-> FALSE,
     ahora |-> -1, antes |-> <<>>]

\* busq keeps the last observation until the next handler starts, ult until
\* the next handler starts or the next version check settles
Olvidar == IF busq.fase = "hecha" THEN BusqInicial ELSE busq

TareaLibre(pc) == [pc |-> pc, forzarRecarga |-> FALSE, versionActual |-> "unknown"]

\* No handler is between two of its awaits
Ocioso == \A t \in Tareas : tareas[t].pc \in {"libre", "pendiente", "fin"}

Init ==
    /\ imagenIndex = <<>>
    /\ aliasIndex = <<>>
    /\ driveTreeVersion = "null"
    /\ actualizacionInterval = FALSE
    /\ temporizadores = <<>>
    /\ desdeSondeo = INTERVALO_SONDEO
    /\ botonVisible = FALSE
    /\ storage = << [key |-> <<"theme">>, val |-> [kind |-> "texto"]] >>
    /\ ahora = 0
    /\ remoteVersion = 1
    /\ tareas = [t \in Tareas |-> TareaLibre(IF t = "inicio" THEN "pendiente" ELSE "libre")]
    /\ busq = BusqInicial
    /\ ult = UltInicial
    /\ og = [indice |-> SinOrigen, alias |-> SinOrigen, version |-> SinOrigen]
    /\ vista = "ninguna"

\* ------------------------------------------------------------- findImageUrls
Terminar(b, tier, urls) == [b EXCEPT !.fase = "hecha", !.tier = tier, !.urls = urls]

\* Lines 627-649 on memory M: [pc, busq] after tiers 1-3
TrasNiveles(M, b) ==
    LET r == Niveles123(M.imagenIndex, M.aliasIndex, b.norm)
    IN  IF r.tier # "ninguno"
        THEN [pc |-> "libre", busq |-> Terminar(b, r.tier, r.urls)]
        ELSE [pc |-> "check", busq |-> b]

\* Variant of TrasConstruirBusqueda that runs tiers 1-3 again after the
\* forced rebuild (sensitivity of C19)
TrasConstruirBusqueda_ReintentoCompleto(M, b, forzada, res) ==
    IF ~forzada
    THEN IF ~res.success THEN [pc |-> "local", busq |-> b]
         ELSE TrasNiveles(M, b)
    ELSE LET r == Niveles123(M.imagenIndex, M.aliasIndex, b.norm)
         IN  IF r.tier # "ninguno"
             THEN [pc |-> "libre", busq |-> Terminar(b, "reintento", r.urls)]
             ELSE [pc |-> "local", busq |-> b]

\* Variant of TrasConstruirBusqueda that consults the tiers after a failed
\* first build (sensitivity of C20)
TrasConstruirBusqueda_FalloSigue(M, b, forzada, res) ==
    IF ~forzada
    THEN TrasNiveles(M, b)
    ELSE LET reintento == MapGet(M.imagenIndex, b.norm)
         IN  IF Len(reintento) > 0
             THEN [pc |-> "libre", busq |-> Terminar(b, "reintento", Urls(reintento))]
             ELSE [pc |-> "local", busq |-> b]

\* Lines 624-625 and 652-656: the lookup goes on when its build has returned
TrasConstruirBusqueda(M, b, forzada, res) ==
    IF ~forzada
    THEN IF ~res.success THEN [pc |-> "local", busq |-> b]
         ELSE TrasNiveles(M, b)
    ELSE LET reintento == MapGet(M.imagenIndex, b.norm)
         IN  IF Len(reintento) > 0
             THEN [pc |-> "libre", busq |-> Terminar(b, "reintento", Urls(reintento))]
             ELSE [pc |-> "local", busq |-> b]

\* clearInterval(actualizacionInterval): the timer whose id is held, the
\* last one registered, is cancelled
clearInterval(timers) == SubSeq(timers, 1, Len(timers) - 1)

\* Variant of iniciarActualizacionAutomatica that registers a timer without
\* cancelling the one held (sensitivity of C30)
iniciarActualizacionAutomatica_SinCancelar(intervalo, timers) ==
    Append(timers, INTERVALO_SONDEO)

\* iniciarActualizacionAutomatica, lines 679-680 and 691: the timers of the
\* page after the call; the new one first runs a full period later
iniciarActualizacionAutomatica(intervalo, timers) ==
    Append(IF intervalo THEN clearInterval(timers) ELSE timers, INTERVALO_SONDEO)

\* busq when a task other than the lookup has put M in place
BusqTocada(M) == [busq EXCEPT !.tocado = @ \/ (busq.fase # "nunca" /\ Tocado(M))]

\* Variant of Retorno in which a rebuild of the timer callback that fails
\* clears the timer (sensitivity of C14)
Retorno_FalloDetiene(t, M, res, fallo) ==
    LET Sigue(n) ==
            /\ tareas' = [tareas EXCEPT ![t] = TareaLibre(n.pc)]
            /\ busq' = [n.busq EXCEPT !.fallos = @ \/ fallo]
            /\ UNCHANGED <<botonVisible, actualizacionInterval, temporizadores, desdeSondeo>>
    IN  /\ Instalar(M)
        /\ CASE t = "inicio" ->
                  /\ tareas' = [tareas EXCEPT ![t] = TareaLibre("fin")]
                  /\ botonVisible' = (botonVisible \/ res.success)
                  /\ actualizacionInterval' = (actualizacionInterval \/ res.success)
                  /\ temporizadores' =
                        IF res.success
                        THEN iniciarActualizacionAutomatica(actualizacionInterval,
                                                            temporizadores)
                        ELSE temporizadores
                  /\ UNCHANGED desdeSondeo
                  /\ busq' = BusqTocada(M)
             [] t = "busqueda" ->
                  Sigue(TrasConstruirBusqueda(
                          M,
                          [busq EXCEPT !.primera =
                              IF tareas[t].forzarRecarga THEN @
                              ELSE IF res.success THEN "ok" ELSE "fallo"],
                          tareas[t].forzarRecarga, res))
             [] OTHER ->
                  /\ tareas' = [tareas EXCEPT ![t] = TareaLibre("libre")]
                  /\ busq' = BusqTocada(M)
                  /\ actualizacionInterval' =
                        (actualizacionInterval /\ ~(t = "intervalo" /\ ~res.success))
                  /\ temporizadores' =
                        IF actualizacionInterval /\ t = "intervalo" /\ ~res.success
                        THEN clearInterval(temporizadores)
                        ELSE temporizadores
                  /\ UNCHANGED desdeSondeo
                  /\ UNCHANGED botonVisible

\* A call of construirIndiceImagenes by task t returns res with memory M:
\* the continuation of the caller runs in the same turn of the event loop
\* (fallo: the request that has just settled failed).
\*   inicio    main.js 161-166: show the button, iniciarActualizacionAutomatica()
\*   busqueda  lines 624-656
\*   intervalo lines 685-686;  boton  main.js 200-202
Retorno(t, M, res, fallo) ==
    LET Sigue(n) ==
            /\ tareas' = [tareas EXCEPT ![t] = TareaLibre(n.pc)]
            /\ busq' = [n.busq EXCEPT !.fallos = @ \/ fallo]
            /\ UNCHANGED <<botonVisible, actualizacionInterval, temporizadores, desdeSondeo>>
    IN  /\ Instalar(M)
        /\ CASE t = "inicio" ->
                  /\ tareas' = [tareas EXCEPT ![t] = TareaLibre("fin")]
                  /\ botonVisible' = (botonVisible \/ res.success)
                  /\ actualizacionInterval' = (actualizacionInterval \/ res.success)
                  /\ temporizadores' =
                        IF res.success
                        THEN iniciarActualizacionAutomatica(actualizacionInterval,
                                                            temporizadores)
                        ELSE temporizadores
                  /\ UNCHANGED desdeSondeo
                  /\ busq' = BusqTocada(M)
             [] t = "busqueda" ->
                  Sigue(TrasConstruirBusqueda(
                          M,
                          [busq EXCEPT !.primera =
                              IF tareas[t].forzarRecarga THEN @
                              ELSE IF res.success THEN "ok" ELSE "fallo"],
                          tareas[t].forzarRecarga, res))
             [] OTHER ->
                  /\ tareas' = [tareas EXCEPT ![t] = TareaLibre("libre")]
                  /\ busq' = BusqTocada(M)
                  /\ UNCHANGED <<botonVisible, actualizacionInterval, temporizadores, desdeSondeo>>

\* Variant of the startup callback that registers the timer before the build
\* returns (sensitivity of C10)
InicioArranca_TimerAntes ==
    /\ tareas["inicio"].pc = "pendiente"
    /\ tareas' = [tareas EXCEPT !["inicio"].pc = "version"]
    /\ actualizacionInterval' = TRUE
    /\ temporizadores' = iniciarActualizacionAutomatica(actualizacionInterval, temporizadores)
    /\ UNCHANGED desdeSondeo
    /\ busq' = Olvidar
    /\ ult' = UltInicial
    /\ UNCHANGED <<imagenIndex, aliasIndex, driveTreeVersion,
                   botonVisible, storage, ahora, remoteVersion, og, vista>>

\* The startup callback runs: construirIndiceImagenes()   (main.js 148-159)
InicioArranca ==
    /\ tareas["inicio"].pc = "pendiente"
    /\ tareas' = [tareas EXCEPT !["inicio"].pc = "version"]
    /\ busq' = Olvidar
    /\ ult' = UltInicial
    /\ UNCHANGED <<imagenIndex, aliasIndex, driveTreeVersion, actualizacionInterval, temporizadores, desdeSondeo,
                   botonVisible, storage, ahora, remoteVersion, og, vista>>

\* findImageUrls(clave) is called: lines 619-649 up to the first await
Buscar(clave) ==
    LET Anterior ==
            [valida |-> /\ busq.fase = "hecha" /\ busq.clave = clave
                        /\ ~busq.tocado /\ ~busq.remotoCambio /\ ~busq.fallos,
             urls   |-> IF busq.fase = "hecha" /\ busq.clave = clave
                        THEN busq.urls ELSE <<>>]
        EsperadoAlias(destino) ==
            IF MapHas(aliasIndex, toLowerCase(clave))
            THEN Niveles123(imagenIndex, aliasIndex, toLowerCase(trim(destino))).urls
            ELSE <<>>
        Observado(norm) ==
            [BusqInicial EXCEPT
                !.fase = "activa", !.clave = clave, !.norm = norm,
                !.vacio = (Len(imagenIndex) = 0),
                !.difiere = (driveTreeVersion # Token(remoteVersion)),
                !.origen = og.indice[1],
                !.enIndice = MapHas(imagenIndex, clave),
                !.esperado = Urls(MapGet(imagenIndex, clave)),
                !.esAlias = MapHas(aliasIndex, toLowerCase(clave)),
                !.esperadoAlias = EsperadoAlias(MapGet(aliasIndex, toLowerCase(clave))),
                !.ant = Anterior]
        Sigue(n) ==
            /\ tareas' = [tareas EXCEPT !["busqueda"] = TareaLibre(n.pc)]
            /\ busq' = n.busq
        Llamada(norm, b) ==
            Sigue(IF norm = <<>> THEN [pc |-> "local", busq |-> b]
                  ELSE IF Len(imagenIndex) = 0
                       THEN [pc |-> "version", busq |-> [b EXCEPT !.construcciones = 1]]
                  ELSE TrasNiveles(MEM, b))
        ConNorma(norm) == Llamada(norm, Observado(norm))
    IN  /\ tareas["busqueda"].pc = "libre"
        /\ ConNorma(toLowerCase(trim(clave)))
        /\ ult' = UltInicial
        /\ UNCHANGED <<imagenIndex, aliasIndex, driveTreeVersion, actualizacionInterval, temporizadores, desdeSondeo,
                       botonVisible, storage, ahora, remoteVersion, og, vista>>

\* The timer fires: the callback calls verificarActualizacionIndice (680-682)
TickIntervalo ==
    /\ actualizacionInterval
    /\ tareas["intervalo"].pc = "libre"
    /\ tareas' = [tareas EXCEPT !["intervalo"].pc = "check"]
    /\ busq' = Olvidar
    /\ ult' = UltInicial
    /\ UNCHANGED <<imagenIndex, aliasIndex, driveTreeVersion, actualizacionInterval, temporizadores, desdeSondeo,
                   botonVisible, storage, ahora, remoteVersion, og, vista>>

\* Click on the refresh button: construirIndiceImagenes(true)  (main.js 196-199)
ClickBoton ==
    /\ botonVisible
    /\ tareas["boton"].pc = "libre"
    /\ tareas' = [tareas EXCEPT !["boton"] =
                     [pc |-> "version", forzarRecarga |-> TRUE, versionActual |-> "unknown"]]
    /\ busq' = Olvidar
    /\ ult' = UltInicial
    /\ UNCHANGED <<imagenIndex, aliasIndex, driveTreeVersion, actualizacionInterval, temporizadores, desdeSondeo,
                   botonVisible, storage, ahora, remoteVersion, og, vista>>

\* The request to /api/drive-tree-version of a build settles (lines 570-588)
RespuestaVersion(t, ok) ==
    LET Edad(meta) ==
            IF meta # Ausente /\ meta.kind = "meta" THEN ahora - meta.timestamp ELSE -1
        Observado(versionActual, r, meta) ==
            [UltInicial EXCEPT
                !.via = IF r.paso = "retorna" THEN r.res.via ELSE "descarga",
                !.t = t,
                !.forzarRecarga = tareas[t].forzarRecarga,
                !.versionActual = versionActual,
                !.success = r.res.success, !.fromCache = r.res.fromCache,
                !.isFallback = r.res.isFallback,
                !.habiaIndice = HasItem(storage, ClaveIndice(versionActual)),
                !.habiaMeta = (meta # Ausente),
                !.edad = Edad(meta),
                !.cambio = Tocado(r.M)]
        Paso(versionActual, r) ==
            /\ ult' = Observado(versionActual, r, getItem(storage, ClaveMeta(versionActual)))
            /\ IF r.paso = "retorna"
               THEN Retorno(t, r.M, r.res, ~ok)
               ELSE /\ Instalar(r.M)
                    /\ tareas' = [tareas EXCEPT ![t].pc = "arbol",
                                                ![t].versionActual = versionActual]
                    /\ busq' = IF t = "busqueda" THEN [busq EXCEPT !.fallos = @ \/ ~ok]
                               ELSE BusqTocada(r.M)
                    /\ UNCHANGED <<botonVisible, actualizacionInterval, temporizadores, desdeSondeo>>
        ConVersion(versionActual) ==
            Paso(versionActual,
                 construirTrasVersion(MEM, tareas[t].forzarRecarga, versionActual, ahora))
    IN  /\ tareas[t].pc = "version"
        /\ ConVersion(IF ok THEN Token(remoteVersion) ELSE "unknown")
        /\ vista' = IF ok THEN Token(remoteVersion) ELSE vista
        /\ UNCHANGED <<ahora, remoteVersion>>

\* The request to /api/drive-tree of a build settles (lines 590-610)
RespuestaArbol(t, ok, escrituras) ==
    LET Guardo(r) ==
            r.res.via = "red" /\ escrituras = 3 /\ tareas[t].versionActual # "unknown"
        Paso(r) ==
            /\ ult' = [UltInicial EXCEPT
                         !.via = r.res.via, !.t = t,
                         !.forzarRecarga = tareas[t].forzarRecarga,
                         !.versionActual = tareas[t].versionActual,
                         !.success = r.res.success, !.fromCache = r.res.fromCache,
                         !.isFallback = r.res.isFallback,
                         !.cambio = Tocado(r.M),
                         !.descargaOk = ok,
                         !.escrituras = IF r.res.via = "red" THEN escrituras ELSE -1,
                         !.escribio = (r.M.storage # storage),
                         !.ahora = IF Guardo(r) THEN ahora ELSE -1,
                         !.antes = IF Guardo(r) THEN storage ELSE <<>>]
            /\ Retorno(t, r.M, r.res, r.res.via # "red")
    IN  /\ tareas[t].pc = "arbol"
        /\ Paso(construirTrasArbol(MEM, tareas[t].versionActual, ok, remoteVersion,
                                   ahora, escrituras))
        /\ UNCHANGED <<ahora, remoteVersion, vista>>

\* The version request of verificarActualizacionIndice settles (664-676),
\* in findImageUrls (649-651) or in the timer callback (682-684)
RespuestaCheck(t, ok) ==
    /\ tareas[t].pc = "check"
    /\ LET necesita == verificarActualizacionIndice(driveTreeVersion, ok, remoteVersion)
       IN  /\ tareas' = [tareas EXCEPT ![t] =
                 IF necesita
                 THEN [pc |-> "version", forzarRecarga |-> TRUE, versionActual |-> "unknown"]
                 ELSE TareaLibre(IF t = "busqueda" THEN "local" ELSE "libre")]
           /\ busq' = IF t = "busqueda"
                      THEN [busq EXCEPT
                              !.verifico = TRUE, !.checkOk = ok,
                              !.vistaRemota = IF ok THEN Token(remoteVersion) ELSE "",
                              !.vistaLocal = driveTreeVersion,
                              !.fallos = @ \/ ~ok,
                              !.construcciones = IF necesita THEN @ + 1 ELSE @,
                              !.forzadas = IF necesita THEN @ + 1 ELSE @]
                      ELSE busq
    /\ vista' = IF ok THEN Token(remoteVersion) ELSE vista
    /\ ult' = UltInicial
    /\ UNCHANGED <<imagenIndex, aliasIndex, driveTreeVersion, actualizacionInterval, temporizadores, desdeSondeo,
                   botonVisible, storage, ahora, remoteVersion, og>>

\* The request to /api/imagenes-local settles (lines 656, 879-890)
RespuestaLocal(ok) ==
    /\ tareas["busqueda"].pc = "local"
    /\ tareas' = [tareas EXCEPT !["busqueda"] = TareaLibre("libre")]
    /\ busq' = [Terminar(busq, "local", buscarImagenesLocales(busq.norm, ok)) EXCEPT
                   !.localLlamado = TRUE, !.fallos = @ \/ ~ok]
    /\ UNCHANGED <<imagenIndex, aliasIndex, driveTreeVersion, actualizacionInterval, temporizadores, desdeSondeo,
                   botonVisible, storage, ahora, remoteVersion, ult, og, vista>>

\* A further call of the exported iniciarActualizacionAutomatica (678-692)
LlamarIniciar ==
    /\ actualizacionInterval' = TRUE
    /\ temporizadores' = iniciarActualizacionAutomatica(actualizacionInterval, temporizadores)
    /\ UNCHANGED <<imagenIndex, aliasIndex, driveTreeVersion, desdeSondeo, botonVisible,
                   storage, ahora, remoteVersion, tareas, busq, ult, og, vista>>

\* The timer i is due and its callback starts (lines 680-682); setInterval
\* schedules its next run a period later
Disparo(i) ==
    /\ temporizadores[i] = 0
    /\ tareas["intervalo"].pc = "libre"
    /\ tareas' = [tareas EXCEPT !["intervalo"].pc = "check"]
    /\ temporizadores' = [temporizadores EXCEPT ![i] = INTERVALO_SONDEO]
    /\ desdeSondeo' = 0
    /\ busq' = Olvidar
    /\ ult' = UltInicial
    /\ UNCHANGED <<imagenIndex, aliasIndex, driveTreeVersion, actualizacionInterval,
                   botonVisible, storage, ahora, remoteVersion, og, vista>>

\* One unit of the timers' time passes; no timer is left due
Transcurre ==
    /\ \A i \in 1..Len(temporizadores) : temporizadores[i] > 0
    /\ temporizadores' = [i \in 1..Len(temporizadores) |-> temporizadores[i] - 1]
    /\ desdeSondeo' = IF desdeSondeo < INTERVALO_SONDEO THEN desdeSondeo + 1
                      ELSE desdeSondeo
    /\ UNCHANGED <<imagenIndex, aliasIndex, driveTreeVersion, actualizacionInterval,
                   botonVisible, storage, ahora, remoteVersion, tareas, busq, ult, og, vista>>

\* ------------------------------------------------------------- environment
\* The server publishes a new tree under a new version
Publicar ==
    /\ remoteVersion < MaxVersion
    /\ remoteVersion' = remoteVersion + 1
    /\ busq' = IF busq.fase = "hecha" THEN BusqInicial
               ELSE [busq EXCEPT !.remotoCambio = @ \/ busq.fase = "activa"]
    /\ UNCHANGED <<imagenIndex, aliasIndex, driveTreeVersion, actualizacionInterval, temporizadores, desdeSondeo,
                   botonVisible, storage, ahora, tareas, ult, og, vista>>

\* Time passes
Reloj ==
    /\ ahora < MaxNow
    /\ ahora' = ahora + 1
    /\ UNCHANGED <<imagenIndex, aliasIndex, driveTreeVersion, actualizacionInterval, temporizadores, desdeSondeo,
                   botonVisible, storage, remoteVersion, tareas, busq, ult, og, vista>>

\* The page is loaded again: the module state starts over, localStorage stays
Recargar ==
    /\ tareas["inicio"].pc = "fin"
    /\ imagenIndex' = <<>>
    /\ aliasIndex' = <<>>
    /\ driveTreeVersion' = "null"
    /\ actualizacionInterval' = FALSE
    /\ temporizadores' = <<>>
    /\ desdeSondeo' = INTERVALO_SONDEO
    /\ botonVisible' = FALSE
    /\ tareas' = [t \in Tareas |-> TareaLibre(IF t = "inicio" THEN "pendiente" ELSE "libre")]
    /\ busq' = BusqInicial
    /\ ult' = UltInicial
    /\ og' = [indice |-> SinOrigen, alias |-> SinOrigen, version |-> SinOrigen]
    /\ vista' = "ninguna"
    /\ UNCHANGED <<storage, ahora, remoteVersion>>

\* Another writer of the origin's localStorage (the store is shared by the
\* scripts of the origin and editable by the user) leaves, under an alias
\* key, text that is not the JSON array this module writes
Corromper ==
    /\ \E i \in 1..Len(storage) :
          /\ Len(storage[i].key) = 3
          /\ storage[i].val.kind = "json"
          /\ storage' = [storage EXCEPT ![i].val = [kind |-> "ilegible"]]
    /\ UNCHANGED <<imagenIndex, aliasIndex, driveTreeVersion, actualizacionInterval, temporizadores, desdeSondeo,
                   botonVisible, ahora, remoteVersion, tareas, busq, ult, og, vista>>

\* ----------------------------------------------------------- specifications
\* Spec: the handlers run one after the other (a handler starts when none is
\* between two awaits); the requests fail or succeed, the quota is exhausted
\* or not, the server publishes; the clock stands still.
Next ==
    \/ Ocioso /\ InicioArranca
    \/ \E clave \in Consultas : Ocioso /\ Buscar(clave)
    \/ Ocioso /\ TickIntervalo
    \/ Ocioso /\ ClickBoton
    \/ \E t \in Tareas, ok \in BOOLEAN : RespuestaVersion(t, ok)
    \/ \E t \in Tareas, ok \in BOOLEAN, escrituras \in {0, 3} :
          RespuestaArbol(t, ok, escrituras)
    \/ \E t \in {"busqueda", "intervalo"}, ok \in BOOLEAN : RespuestaCheck(t, ok)
    \/ \E ok \in BOOLEAN : RespuestaLocal(ok)
    \/ Publicar
    \/ Ocioso /\ Recargar

Spec == Init /\ [][Next]_vars

\* SpecTiempo: startup builds, forced refreshes and reloads while time
\* passes, with writes that stop at the quota part-way; no lookups.
NextTiempo ==
    \/ Ocioso /\ InicioArranca
    \/ Ocioso /\ ClickBoton
    \/ \E t \in {"inicio", "boton"}, ok \in BOOLEAN : RespuestaVersion(t, ok)
    \/ \E t \in {"inicio", "boton"}, ok \in BOOLEAN, escrituras \in {0, 2, 3} :
          RespuestaArbol(t, ok, escrituras)
    \/ Publicar
    \/ Ocioso /\ Reloj
    \/ Ocioso /\ Recargar

SpecTiempo == Init /\ [][NextTiempo]_vars

\* SpecCorrupta: builds, refreshes and reloads with a foreign writer of
\* localStorage.
NextCorrupta ==
    \/ Ocioso /\ InicioArranca
    \/ Ocioso /\ TickIntervalo
    \/ Ocioso /\ ClickBoton
    \/ \E t \in {"inicio", "intervalo", "boton"}, ok \in BOOLEAN : RespuestaVersion(t, ok)
    \/ \E t \in {"inicio", "intervalo", "boton"}, ok \in BOOLEAN, escrituras \in {0, 3} :
          RespuestaArbol(t, ok, escrituras)
    \/ \E ok \in BOOLEAN : RespuestaCheck("intervalo", ok)
    \/ Publicar
    \/ Ocioso /\ Recargar
    \/ Ocioso /\ Corromper

SpecCorrupta == Init /\ [][NextCorrupta]_vars

\* SpecSolapada: the handlers start whenever their trigger allows and
\* interleave at their awaits; one key is looked up, every write succeeds,
\* the server keeps its version.
NextSolapada ==
    \/ InicioArranca
    \/ Buscar(<<"p">>)
    \/ TickIntervalo
    \/ ClickBoton
    \/ \E t \in Tareas, ok \in BOOLEAN : RespuestaVersion(t, ok)
    \/ \E t \in Tareas, ok \in BOOLEAN : RespuestaArbol(t, ok, 3)
    \/ \E t \in {"busqueda", "intervalo"}, ok \in BOOLEAN : RespuestaCheck(t, ok)
    \/ \E ok \in BOOLEAN : RespuestaLocal(ok)

SpecSolapada == Init /\ [][NextSolapada]_vars

\* SpecTemporizador: the startup build, reloads, and the timers of the page
\* as their time passes; iniciarActualizacionAutomatica is called by the
\* startup callback and, any number of times, by any other importer of the
\* module.
NextTemporizador ==
    \/ Ocioso /\ InicioArranca
    \/ \E t \in {"inicio", "intervalo"}, ok \in BOOLEAN : RespuestaVersion(t, ok)
    \/ \E t \in {"inicio", "intervalo"}, ok \in BOOLEAN : RespuestaArbol(t, ok, 3)
    \/ \E ok \in BOOLEAN : RespuestaCheck("intervalo", ok)
    \/ Ocioso /\ LlamarIniciar
    \/ \E i \in 1..Len(temporizadores) : Ocioso /\ Disparo(i)
    \/ Transcurre
    \/ Publicar
    \/ Ocioso /\ Recargar

SpecTemporizador == Init /\ [][NextTemporizador]_vars

\* SpecNiveles: the startup build and lookups one after the other, on keys
\* that reach every tier; the requests fail or succeed, the quota is
\* exhausted or not, the server publishes.
NextNiveles ==
    \/ Ocioso /\ InicioArranca
    \/ \E clave \in ConsultasNiveles : Ocioso /\ Buscar(clave)
    \/ \E t \in {"inicio", "busqueda"}, ok \in BOOLEAN : RespuestaVersion(t, ok)
    \/ \E t \in {"inicio", "busqueda"}, ok \in BOOLEAN, escrituras \in {0, 3} :
          RespuestaArbol(t, ok, escrituras)
    \/ \E ok \in BOOLEAN : RespuestaCheck("busqueda", ok)
    \/ \E ok \in BOOLEAN : RespuestaLocal(ok)
    \/ Publicar
    \/ Ocioso /\ Recargar

SpecNiveles == Init /\ [][NextNiveles]_vars

\* SpecArbol: the server holds any one of the payloads, under the version
\* number that names it, and keeps it; the startup build, forced refreshes,
\* lookups and reloads run one after the other.
InitArbol ==
    /\ imagenIndex = <<>>
    /\ aliasIndex = <<>>
    /\ driveTreeVersion = "null"
    /\ actualizacionInterval = FALSE
    /\ temporizadores = <<>>
    /\ desdeSondeo = INTERVALO_SONDEO
    /\ botonVisible = FALSE
    /\ storage = << [key |-> <<"theme">>, val |-> [kind |-> "texto"]] >>
    /\ ahora = 0
    /\ remoteVersion \in 1..Len(Arboles)
    /\ tareas = [t \in Tareas |-> TareaLibre(IF t = "inicio" THEN "pendiente" ELSE "libre")]
    /\ busq = BusqInicial
    /\ ult = UltInicial
    /\ og = [indice |-> SinOrigen, alias |-> SinOrigen, version |-> SinOrigen]
    /\ vista = "ninguna"

NextArbol ==
    \/ Ocioso /\ InicioArranca
    \/ Ocioso /\ ClickBoton
    \/ \E clave \in ConsultasArbol : Ocioso /\ Buscar(clave)
    \/ \E t \in {"inicio", "boton", "busqueda"}, ok \in BOOLEAN : RespuestaVersion(t, ok)
    \/ \E t \in {"inicio", "boton", "busqueda"}, ok \in BOOLEAN, escrituras \in {0, 3} :
          RespuestaArbol(t, ok, escrituras)
    \/ \E ok \in BOOLEAN : RespuestaCheck("busqueda", ok)
    \/ \E ok \in BOOLEAN : RespuestaLocal(ok)
    \/ Ocioso /\ Recargar

SpecArbol == InitArbol /\ [][NextArbol]_vars

\* SpecVigilante: the startup build, the polls of the timer and reloads
\* while the server publishes.  The timers fire (setTimeout at main.js 148,
\* setInterval at line 680) and every request settles, with either outcome.
\* For the tree request this is stated on the position of the task: a task
\* leaves "arbol" by RespuestaArbol alone, so that no task waits there for
\* ever is the weak fairness of RespuestaArbol for each task.
NextVigilante ==
    \/ Ocioso /\ InicioArranca
    \/ Ocioso /\ TickIntervalo
    \/ \E t \in {"inicio", "intervalo"}, ok \in BOOLEAN : RespuestaVersion(t, ok)
    \/ \E t \in {"inicio", "intervalo"}, ok \in BOOLEAN, escrituras \in {0, 3} :
          RespuestaArbol(t, ok, escrituras)
    \/ \E ok \in BOOLEAN : RespuestaCheck("intervalo", ok)
    \/ Publicar
    \/ Ocioso /\ Recargar

SpecVigilante ==
    /\ Init /\ [][NextVigilante]_vars
    /\ WF_vars(Ocioso /\ InicioArranca)
    /\ WF_vars(Ocioso /\ TickIntervalo)
    /\ WF_vars(\E t \in {"inicio", "intervalo"}, ok \in BOOLEAN : RespuestaVersion(t, ok))
    /\ WF_vars(\E ok \in BOOLEAN : RespuestaCheck("intervalo", ok))
    /\ []<>(tareas["inicio"].pc # "arbol")
    /\ []<>(tareas["intervalo"].pc # "arbol")

\* =============================================================== properties
\* A lookup has returned, it ran on the index as it was when it started
\* (it built nothing), every request it made succeeded and the server did
\* not publish meanwhile
BusquedaLimpia ==
    /\ busq.fase = "hecha"
    /\ busq.construcciones = 0
    /\ ~busq.fallos
    /\ ~busq.remotoCambio
    /\ ~busq.tocado

\* ------------------------------------------------------------------------ C1
\* C1: after a successful network build, findImageUrls(k) on a key k stored in
\* the primary index returns exactly the URLs recorded for k, in the stored
\* order, through Tier 1 alone: no alias lookup, no fuzzy scan, no version
\* check, no build and no call to the single-key endpoint.  Stated for every
\* key of the installed index (first conjunct) and for the calls made
\* (second conjunct).
C1_ClaveAlmacenadaPorNivel1 ==
    /\ og.indice[1] = "red" =>
          \A i \in 1..Len(imagenIndex) :
             LET r == Niveles123(imagenIndex, aliasIndex,
                                 toLowerCase(trim(imagenIndex[i].k)))
             IN  r.tier = "exacta" /\ r.urls = Urls(imagenIndex[i].v)
    /\ (busq.fase = "hecha" /\ busq.enIndice /\ busq.origen = "red") =>
          /\ busq.tier = "exacta"
          /\ busq.urls = busq.esperado
          /\ busq.construcciones = 0
          /\ ~busq.verifico
          /\ ~busq.localLlamado

C1_Testigo ==
    /\ busq.fase = "hecha" /\ busq.enIndice /\ busq.origen = "red"
    /\ busq.tier = "exacta"
    /\ Len(busq.urls) = 2
    /\ Len(imagenIndex) > 1

\* ------------------------------------------------------------------------ C2
\* C2: for every alias a recorded by a build as a -> k, findImageUrls(a)
\* returns the same URL sequence as findImageUrls(k), whatever the alias text
\* (surrounding whitespace, upper case, text equal to another folder's key).
C2_AliasIgualQueClave ==
    (BusquedaLimpia /\ busq.esAlias) => busq.urls = busq.esperadoAlias

C4_Caso ==
    /\ busq.fase = "hecha"
    /\ busq.norm # <<>>
    /\ busq.tier \in {"reintento", "local"}
    /\ busq.difiere
    /\ ~busq.remotoCambio

\* C4 as stated: in that case the lookup ran exactly one build.
C4_ExactamenteUna == C4_Caso => busq.construcciones = 1

\* C4 amended: in that case the lookup ran one forced rebuild exactly when
\* its own version check succeeded and reported a version other than the
\* held one, and none otherwise (a check that fails rebuilds nothing); before
\* that it ran one non-forced build exactly when the index was empty at its
\* start.  So it ran zero, one or two builds.
C4_Reconstrucciones ==
    C4_Caso =>
       /\ busq.forzadas =
             (IF busq.verifico /\ busq.checkOk /\ busq.vistaRemota # busq.vistaLocal
              THEN 1 ELSE 0)
       /\ busq.construcciones = busq.forzadas + (IF busq.vacio THEN 1 ELSE 0)

C4_Testigo ==
    /\ C4_Caso
    /\ busq.vacio
    /\ busq.forzadas = 1
    /\ busq.construcciones = 2

\* ------------------------------------------------------------------------ C5
\* C5: after a load of a saved version, the primary index and the alias index
\* are the maps that were in memory when their payloads were saved: same
\* keys, same values, same key order and entry order.
C5_IdaYVuelta ==
    ult.via = "cache" =>
       LET cachedIndex == getItem(storage, ClaveIndice(ult.versionActual))
           cachedAlias == getItem(storage, ClaveAlias(ult.versionActual))
       IN  /\ cachedIndex # Ausente
           /\ imagenIndex = cachedIndex.mem
           /\ aliasIndex = (IF cachedAlias = Ausente THEN <<>> ELSE cachedAlias.mem)

C5_Testigo ==
    /\ ult.via = "cache"
    /\ Len(imagenIndex) > 1
    /\ Len(aliasIndex) > 0
    /\ \E i \in 1..Len(imagenIndex) : \E j \in 1..Len(imagenIndex[i].v) :
          imagenIndex[i].v[j].name = Undef

\* ------------------------------------------------------------------------ C6
\* C6: a build that gets to the persisted records (it is past the in-memory
\* short cut) restores the index from them only if it is not forced, the
\* version just fetched has an index payload and a metadata record, and
\* now - timestamp < TTL_CACHE_MS; with now - timestamp >= TTL_CACHE_MS or a
\* record missing, nothing is loaded and the build goes on to the download.
C6_SoloSiFresco ==
    /\ ult.via = "cache" =>
          /\ ~ult.forzarRecarga
          /\ ult.versionActual # "unknown"
          /\ ult.habiaIndice /\ ult.habiaMeta
          /\ ult.edad >= 0 /\ ult.edad < TTL_CACHE_MS
          /\ ult.success /\ ult.fromCache
    /\ (/\ ult.via \in {"cache", "descarga"}
        /\ (~ult.habiaIndice \/ ~ult.habiaMeta \/ ult.edad >= TTL_CACHE_MS))
          => (ult.via = "descarga" /\ ~ult.cambio)

C6_Testigo ==
    /\ ult.via = "descarga"
    /\ ~ult.forzarRecarga
    /\ ult.habiaIndice /\ ult.habiaMeta
    /\ ult.edad = TTL_CACHE_MS

IndicesCompletos(st) ==
    {i \in 1..Len(st) : /\ Len(st[i].key) = 2
                        /\ st[i].key[1] = CACHE_PREFIX
                        /\ HasItem(st, ClaveMeta(st[i].key[2]))}

\* The version of the first of them in enumeration order
PrimeraCompleta(st) ==
    st[CHOOSE i \in IndicesCompletos(st) : \A j \in IndicesCompletos(st) : i <= j].key[2]

\* C8: when the download of a build fails and storage holds a version with
\* an index payload and a metadata record, the build installs the first such
\* version in enumeration order, whatever its age, and returns
\* {success: true, fromCache: true, isFallback: true}.
C8_FallbackPrimera ==
    (ult.via \in {"fallback", "error"} /\ IndicesCompletos(storage) # {}) =>
       LET ver == PrimeraCompleta(storage)
       IN  /\ ult.via = "fallback"
           /\ ult.success /\ ult.fromCache /\ ult.isFallback
           /\ driveTreeVersion = ver
           /\ imagenIndex = ParseIndice(getItem(storage, ClaveIndice(ver)))
           /\ og.indice = <<"fallback", ver, getItem(storage, ClaveIndice(ver)).de>>

C8_Testigo ==
    /\ ult.via = "fallback"
    /\ Cardinality(IndicesCompletos(storage)) = 2
    /\ driveTreeVersion # Token(remoteVersion)
    /\ ahora - getItem(storage, ClaveMeta(driveTreeVersion)).timestamp > TTL_CACHE_MS

\* ------------------------------------------------------------------------ C9
\* C9: in every state the primary index, the alias index and the held
\* version come from one source: the same network build or the same
\* persisted version.
C9_UnSoloOrigen ==
    /\ og.indice[1] = og.alias[1] /\ og.indice[2] = og.alias[2]
    /\ og.indice[1] = og.version[1] /\ og.indice[2] = og.version[2]

\* ----------------------------------------------------------------------- C10
\* A call of construirIndiceImagenes made by t is in flight
EnCurso(t) == tareas[t].pc \in {"version", "arbol"}

\* C10 as stated: at most one build is in flight.
C10_UnaSolaConstruccion == Cardinality({t \in Tareas : EnCurso(t)}) <= 1

\* C10 amended: no build of the version watcher and no build of the refresh
\* button is in flight while the startup build is (both are enabled by the
\* startup build's success); the builds of lookups, watcher and button
\* overlap one another, and a lookup's build overlaps the startup build.
C10_InicioSinVigilante ==
    EnCurso("inicio") =>
       /\ tareas["intervalo"].pc = "libre"
       /\ tareas["boton"].pc = "libre"

C10_Testigo ==
    /\ EnCurso("inicio")
    /\ EnCurso("busqueda")
    /\ ~actualizacionInterval
\* ----------------------------------------------------------------------- C17
\* C17 as stated: whenever the in-memory index is used without a refresh (a
\* lookup answered by tiers 1-3, or a non-forced build that returns without
\* downloading the tree) the held version equals the remote version most
\* recently observed by a version request.
C17_VersionVistaAlUsar ==
    /\ (busq.fase = "hecha" /\ busq.tier \in {"exacta", "alias", "parcial"})
          => driveTreeVersion = vista
    /\ ult.via \in {"memoria", "cache"} => driveTreeVersion = vista

\* C17 amended: a non-forced build that returns without downloading the tree
\* does so with the held version equal to the token it has just fetched
\* ("unknown" when that request failed; otherwise the version observed last,
\* and a persisted version is loaded only under a fetched token).  A lookup
\* answered by tiers 1-3 on the index it found makes no version request, so
\* it answers whatever the held version is.
C17_VersionAlAtajar ==
    /\ ult.via \in {"memoria", "cache"} =>
          /\ ~ult.forzarRecarga
          /\ driveTreeVersion = ult.versionActual
          /\ ult.versionActual # "unknown" => driveTreeVersion = vista
          /\ ult.via = "cache" => ult.versionActual # "unknown"
    /\ (/\ busq.fase = "hecha" /\ busq.tier \in {"exacta", "alias", "parcial"}
        /\ busq.construcciones = 0)
          => (~busq.verifico /\ ~busq.localLlamado)

\* A lookup answered by tier 1 from an index restored by the fallback while
\* the server's newer version had already been observed
C17_Testigo ==
    /\ busq.fase = "hecha" /\ busq.tier = "exacta" /\ busq.construcciones = 0
    /\ og.indice[1] = "fallback"
    /\ vista # "ninguna"
    /\ driveTreeVersion \notin {vista, "unknown", "null"}
\* ----------------------------------------------------------------------- C16
\* C16: every key of the primary index is in the form findImageUrls gives to
\* its input (trimmed, lower case, not empty), whether it came from the
\* field k of the tree or from _normalizarClaveClienteFallback; and a lookup
\* whose normalized key is a stored key is answered by Tier 1 with the URLs
\* stored under it, with no version check and no call to the single-key
\* endpoint.
C16_ClavesNormalizadas ==
    /\ \A i \in 1..Len(imagenIndex) :
          /\ imagenIndex[i].k # <<>>
          /\ imagenIndex[i].k = toLowerCase(trim(imagenIndex[i].k))
    /\ (/\ busq.fase = "hecha" /\ busq.construcciones = 0
        /\ MapHas(imagenIndex, busq.norm))
          => /\ busq.tier = "exacta"
             /\ busq.urls = Urls(MapGet(imagenIndex, busq.norm))
             /\ ~busq.verifico /\ ~busq.localLlamado

\* A key typed in another case and with a trailing blank is answered by
\* Tier 1 from a network-built index whose key came from the fallback
\* normalization of a folder name
C16_Testigo ==
    /\ busq.fase = "hecha" /\ busq.construcciones = 0
    /\ busq.clave = <<"X", "z", " ">>
    /\ busq.tier = "exacta" /\ Len(busq.urls) = 1
    /\ og.indice[1] = "red"
    /\ MapHas(imagenIndex, <<"i", "-", "0", "1", "-", "0", "0", "2", "-", "0", "3">>)
\* ----------------------------------------------------------------------- C18
\* The positions of the stored keys that contain q or are contained in it
Candidatas(indice, q) ==
    {i \in 1..Len(indice) : includes(indice[i].k, q) \/ includes(q, indice[i].k)}

\* | length of the stored key at position i - length of q |
Distancia(indice, q, i) ==
    IF Len(indice[i].k) >= Len(q) THEN Len(indice[i].k) - Len(q)
    ELSE Len(q) - Len(indice[i].k)

\* Tiers 1 and 2 both miss for q
FallanExactaYAlias(indice, alias, q) ==
    /\ Len(MapGet(indice, q)) = 0
    /\ ~(MapHas(alias, q) /\ Len(MapGet(indice, MapGet(alias, q))) > 0)

\* C18: Tier 3 answers only when Tiers 1 and 2 both miss; its answer is the
\* URL list of a stored key in a substring relation with the normalized query
\* whose length difference to the query is minimal among all such keys; it
\* answers whenever such a key exists, and when none exists the lookup goes
\* on to the version check.  Stated for the lookups made on the index as
\* they found it and, in every state, for every query of ConsultasNiveles.
C18_ParcialMinima ==
    /\ \A c \in ConsultasNiveles :
          LET q == toLowerCase(trim(c))
              r == Niveles123(imagenIndex, aliasIndex, q)
              cand == Candidatas(imagenIndex, q)
          IN  /\ r.tier = "parcial" =>
                    /\ FallanExactaYAlias(imagenIndex, aliasIndex, q)
                    /\ \E i \in cand :
                          /\ r.urls = Urls(imagenIndex[i].v)
                          /\ \A j \in cand : Distancia(imagenIndex, q, i)
                                                   <= Distancia(imagenIndex, q, j)
              /\ (FallanExactaYAlias(imagenIndex, aliasIndex, q) /\ cand # {})
                    => r.tier = "parcial"
              /\ (FallanExactaYAlias(imagenIndex, aliasIndex, q) /\ cand = {})
                    => r.tier = "ninguno"
    /\ (busq.fase = "hecha" /\ busq.construcciones = 0 /\ busq.norm # <<>>) =>
          LET r == Niveles123(imagenIndex, aliasIndex, busq.norm)
          IN  /\ r.tier # "ninguno" =>
                    (busq.tier = r.tier /\ busq.urls = r.urls /\ ~busq.verifico)
              /\ r.tier = "ninguno" => busq.verifico

\* "abcd" contains three stored keys; the one answered, "abc", is the last
\* of them in the order of the index
C18_Testigo ==
    /\ busq.fase = "hecha" /\ busq.construcciones = 0
    /\ busq.norm = <<"a", "b", "c", "d">>
    /\ busq.tier = "parcial"
    /\ Cardinality(Candidatas(imagenIndex, busq.norm)) = 3
    /\ busq.urls = Urls(MapGet(imagenIndex, <<"a", "b", "c">>))
    /\ MapPos(imagenIndex, <<"a", "b", "c">>) = 3
\* ----------------------------------------------------------------------- C19
\* C19: a lookup that got to the version check (tiers 1-3 missed) forces one
\* rebuild exactly when the check succeeded and reported a version other
\* than the held one, and none when the versions are equal or the check
\* failed.  After the rebuild it retries the exact match only: it returns
\* the URLs stored under the key in the index now in memory when there are
\* any, and otherwise the answer of the single-key endpoint, even when the
\* alias index or the substring scan would now resolve the key.  Without a
\* rebuild it returns the answer of the single-key endpoint.
C19_ReintentoSoloExacto ==
    (busq.fase = "hecha" /\ busq.verifico) =>
       /\ busq.forzadas =
             (IF busq.checkOk /\ busq.vistaRemota # busq.vistaLocal THEN 1 ELSE 0)
       /\ busq.forzadas = 0 => (busq.tier = "local" /\ busq.localLlamado)
       /\ busq.forzadas = 1 =>
             IF Len(MapGet(imagenIndex, busq.norm)) > 0
             THEN /\ busq.tier = "reintento"
                  /\ busq.urls = Urls(MapGet(imagenIndex, busq.norm))
                  /\ ~busq.localLlamado
             ELSE /\ busq.tier = "local"
                  /\ busq.localLlamado
                  /\ busq.urls \in {<<>>, ImagenesLocalesDB(busq.norm)}

\* After the forced rebuild the alias index resolves the key, the exact
\* retry does not, and the lookup returned the single-key endpoint's answer
C19_Testigo ==
    /\ busq.fase = "hecha" /\ busq.verifico /\ busq.forzadas = 1
    /\ ~busq.fallos
    /\ busq.tier = "local"
    /\ og.indice[1] = "red"
    /\ Niveles123(imagenIndex, aliasIndex, busq.norm).tier = "alias"
\* ----------------------------------------------------------------------- C20
\* C20: a lookup on a non-empty key that finds the index empty runs one
\* non-forced build first and consults no tier until it has returned (a
\* lookup that finds an index, or whose key is blank, runs none).  When that
\* build reports failure the lookup returns the single-key endpoint's answer
\* with no tier, no version check and no rebuild.  When it reports success
\* the lookup goes on with Tier 1 on the index the build left in memory: it
\* returns the answer of tiers 1-3 on it, or gets to the version check when
\* they miss.
C20_ConstruyeAntes ==
    /\ (busq.fase # "nunca" /\ busq.vacio /\ busq.norm # <<>>) =>
          /\ busq.construcciones >= 1
          /\ busq.primera = "" =>
                /\ tareas["busqueda"].pc \in {"version", "arbol"}
                /\ ~tareas["busqueda"].forzarRecarga
                /\ busq.fase = "activa" /\ busq.tier = ""
                /\ ~busq.verifico /\ ~busq.localLlamado
          /\ busq.fase = "hecha" => busq.primera # ""
          /\ (busq.fase = "hecha" /\ busq.primera = "fallo") =>
                /\ busq.tier = "local" /\ busq.localLlamado
                /\ ~busq.verifico
                /\ busq.construcciones = 1 /\ busq.forzadas = 0
          /\ (busq.fase = "hecha" /\ busq.primera = "ok" /\ busq.forzadas = 0) =>
                LET r == Niveles123(imagenIndex, aliasIndex, busq.norm)
                IN  IF r.tier # "ninguno"
                    THEN busq.tier = r.tier /\ busq.urls = r.urls /\ ~busq.verifico
                    ELSE busq.tier = "local" /\ busq.verifico
    /\ (busq.fase # "nunca" /\ (~busq.vacio \/ busq.norm = <<>>)) =>
          (busq.primera = "" /\ busq.construcciones = busq.forzadas)

\* The build of a lookup on an empty index failed with nothing persisted,
\* and the lookup returned the single-key endpoint's rows
C20_Testigo ==
    /\ busq.fase = "hecha" /\ busq.vacio /\ busq.primera = "fallo"
    /\ Len(imagenIndex) = 0
    /\ busq.tier = "local" /\ Len(busq.urls) = 1
\* ----------------------------------------------------------------------- C11
\* C11: whatever the key and whichever of the version request, the tree
\* download, the storage writes and the single-key request fail, a
\* findImageUrls call is always waiting for a request that will settle or
\* has returned a sequence of URLs; the answer of the last tier is the
\* endpoint's rows, and the empty sequence when the endpoint has no row for
\* the key or its request failed.
C11_SiempreUrls ==
    /\ busq.fase = "activa" =>
          tareas["busqueda"].pc \in {"version", "arbol", "check", "local"}
    /\ busq.fase = "hecha" =>
          /\ tareas["busqueda"].pc = "libre"
          /\ busq.tier \in {"exacta", "alias", "parcial", "reintento", "local"}
          /\ \A i \in 1..Len(busq.urls) : busq.urls[i].t = "str"
          /\ busq.tier # "local" => Len(busq.urls) > 0
          /\ busq.tier = "local" =>
                /\ busq.urls \in {<<>>, ImagenesLocalesDB(busq.norm)}
                /\ ImagenesLocalesDB(busq.norm) = <<>> => busq.urls = <<>>

\* Every request of the lookup failed (version, tree and single-key
\* endpoint, with nothing persisted) and it returned the empty sequence
C11_Testigo ==
    /\ busq.fase = "hecha" /\ busq.vacio /\ busq.primera = "fallo"
    /\ ult.versionActual = "unknown"
    /\ busq.tier = "local" /\ busq.urls = <<>>
    /\ ImagenesLocalesDB(busq.norm) # <<>>

\* ----------------------------------------------------------------------- C12
\* C12: a build whose tree download fails with no persisted version to load
\* returns {success: false}: it leaves the index, the alias index and the
\* held version as they were; the startup callback then shows neither the
\* button nor starts the timer, and a lookup that was waiting for it on an
\* empty index goes to the single-key endpoint and returns its answer, the
\* empty sequence when the endpoint has no row.  A failed download with a
\* persisted version returns success from the fallback.
C12_FalloSinExcepcion ==
    /\ ult.via \in {"fallback", "error"} =>
          /\ ~ult.descargaOk
          /\ ult.success = (ult.via = "fallback")
          /\ ult.success = (IndicesCompletos(storage) # {})
    /\ ult.via = "error" =>
          /\ ~ult.success /\ ~ult.fromCache /\ ~ult.isFallback
          /\ ~ult.cambio /\ ~ult.escribio
          /\ ult.t = "inicio" =>
                /\ tareas["inicio"].pc = "fin"
                /\ ~botonVisible /\ ~actualizacionInterval
          /\ (ult.t = "busqueda" /\ ~ult.forzarRecarga /\ busq.fase # "nunca") =>
                /\ busq.primera = "fallo"
                /\ \/ busq.fase = "activa" /\ tareas["busqueda"].pc = "local"
                   \/ /\ busq.fase = "hecha" /\ busq.tier = "local"
                      /\ busq.urls \in {<<>>, ImagenesLocalesDB(busq.norm)}
                      /\ ImagenesLocalesDB(busq.norm) = <<>> => busq.urls = <<>>

\* The build of a lookup on an empty index failed with nothing persisted and
\* the lookup returned the empty answer of the single-key endpoint
C12_Testigo ==
    /\ ult.via = "error" /\ ult.t = "busqueda" /\ ~ult.forzarRecarga
    /\ ult.versionActual # "unknown"
    /\ busq.fase = "hecha" /\ busq.tier = "local" /\ busq.urls = <<>>
    /\ ~busq.verifico
\* ----------------------------------------------------------------------- C13
\* C13: a build whose download succeeded returns {success: true, fromCache:
\* false} and leaves in memory the primary index, the alias index and the
\* version of that download, whether every localStorage write succeeded,
\* the first one threw or a later one threw; its caller goes on as after a
\* success (the startup callback shows the button and starts the timer).
C13_FalloAlGuardar ==
    ult.descargaOk =>
       /\ ult.via = "red"
       /\ ult.success /\ ~ult.fromCache /\ ~ult.isFallback
       /\ og.indice[1] = "red" /\ og.alias = og.indice /\ og.version = og.indice
       /\ og.indice[2] = ult.versionActual
       /\ driveTreeVersion = ult.versionActual
       /\ imagenIndex = descargarYConstruirIndice(ArbolDe(og.indice[3])).nuevoIndice
       /\ aliasIndex = descargarYConstruirIndice(ArbolDe(og.indice[3])).nuevoAlias
       /\ ult.t = "inicio" => (botonVisible /\ actualizacionInterval)

\* The write of the metadata record threw after the two payloads had been
\* written: the build succeeded and the version is left without metadata
C13_Testigo ==
    /\ ult.descargaOk /\ ult.via = "red" /\ ult.success
    /\ ult.escrituras = 2 /\ ult.versionActual # "unknown"
    /\ Len(imagenIndex) > 2
    /\ HasItem(storage, ClaveIndice(ult.versionActual))
    /\ ~HasItem(storage, ClaveMeta(ult.versionActual))
\* ----------------------------------------------------------------------- C15
\* The item is a metadata record older than the horizon at time h
MetaVieja(it, h) ==
    /\ it.key[1] = CACHE_META_PREFIX
    /\ Parseable(it.val)
    /\ h - it.val.timestamp > TTL_LIMPIEZA_MS

\* The versions of st whose metadata record is older than the horizon at h
VersionesViejas(st, h) == {st[i].key[2] : i \in {j \in 1..Len(st) : MetaVieja(st[j], h)}}

\* st without the metadata, index and alias items of those versions
SinViejas(st, h) ==
    SelectSeq(st, LAMBDA it :
        ~\E ver \in VersionesViejas(st, h) :
            it.key \in {ClaveMeta(ver), ClaveIndice(ver), ClaveAlias(ver)})

\* C15: the sweep of a save at time h turns storage into storage without
\* the metadata records older than TTL_LIMPIEZA_MS and without the index and
\* alias payloads of their versions, and keeps every other item in place
\* (records exactly TTL_LIMPIEZA_MS old included), however many records it
\* removes while it walks the store.  Stated for the sweep applied to every
\* reachable store at every later time (first conjunct) and for the saves
\* made (second conjunct): after a save whose three writes succeeded no
\* stored metadata record is older than the horizon, the record just written
\* is there, and of the items stored before exactly those of versions whose
\* metadata was older than the horizon are gone.
C15_BarridoCompleto ==
    /\ \A h \in ahora..(MaxNow + TTL_LIMPIEZA_MS + 1) :
          LimpiarDesde(storage, Len(storage) - 1, h) = SinViejas(storage, h)
    /\ ult.ahora >= 0 =>
          /\ \A i \in 1..Len(storage) : ~MetaVieja(storage[i], ult.ahora)
          /\ HasItem(storage, ClaveMeta(ult.versionActual))
          /\ getItem(storage, ClaveMeta(ult.versionActual)).timestamp = ult.ahora
          /\ HasItem(storage, ClaveIndice(ult.versionActual))
          /\ HasItem(storage, ClaveAlias(ult.versionActual))
          /\ \A i \in 1..Len(ult.antes) :
                LET it == ult.antes[i]
                    deVieja == \E ver \in VersionesViejas(ult.antes, ult.ahora)
                                          \ {ult.versionActual} :
                                  it.key \in {ClaveMeta(ver), ClaveIndice(ver), ClaveAlias(ver)}
                IN  HasItem(storage, it.key) = ~deVieja

\* A save removed the three items of a version older than the horizon and
\* kept its own
C15_Testigo ==
    /\ ult.ahora >= 0
    /\ \E ver \in VersionesViejas(ult.antes, ult.ahora) :
          /\ ver # ult.versionActual
          /\ HasItem(ult.antes, ClaveIndice(ver)) /\ HasItem(ult.antes, ClaveAlias(ver))
          /\ ~HasItem(storage, ClaveMeta(ver))
          /\ ~HasItem(storage, ClaveIndice(ver))
          /\ ~HasItem(storage, ClaveAlias(ver))
    /\ HasItem(storage, ClaveMeta(ult.versionActual))
\* ----------------------------------------------------------------------- C14
\* The step is a reload of the page
EsRecarga == tareas["inicio"].pc = "fin" /\ tareas'["inicio"].pc = "pendiente"

\* C14: once the timer is registered it stays registered until the page is
\* loaded again, whatever happens in a poll: a poll whose version request
\* fails ends and leaves the callback free for the next tick, a poll that
\* sees a new version runs a forced rebuild and ends when the rebuild
\* returns, failed or not; and every tick that runs the callback starts with
\* the version request of verificarActualizacionIndice.
C14_SondeoSigue ==
    [][ /\ (actualizacionInterval /\ ~EsRecarga) => actualizacionInterval'
        /\ (tareas["intervalo"].pc = "libre" /\ tareas'["intervalo"].pc # "libre")
              => (actualizacionInterval /\ tareas'["intervalo"].pc = "check")
        /\ (tareas["intervalo"].pc = "check" /\ tareas'["intervalo"].pc # "check")
              => \/ tareas'["intervalo"].pc = "libre"
                 \/ /\ tareas'["intervalo"].pc = "version"
                    /\ tareas'["intervalo"].forzarRecarga
                    /\ vista' # driveTreeVersion
        /\ (tareas["intervalo"].pc = "version" /\ tareas'["intervalo"].pc # "version")
              => (~EsRecarga => tareas'["intervalo"].pc = "arbol")
        /\ (tareas["intervalo"].pc = "arbol" /\ tareas'["intervalo"].pc # "arbol")
              => tareas'["intervalo"].pc = "libre"
      ]_vars

\* The rebuild of a poll failed with nothing to fall back on; the timer is
\* registered and the callback is free for the next tick
C14_Testigo ==
    /\ ult.t = "intervalo" /\ ult.via = "error" /\ ~ult.success
    /\ actualizacionInterval
    /\ tareas["intervalo"].pc = "libre"
\* ----------------------------------------------------------------------- C21
\* C21: every build the timer callback runs is a forced one, and a forced
\* build (of the callback, the refresh button or a lookup) never returns at
\* the in-memory short cut nor from a persisted record: when its version
\* request settles it leaves memory as it is and waits for the tree request,
\* even with an index in memory under that version and with the index
\* payload and a metadata record of that version stored and younger than
\* TTL_CACHE_MS; it returns only when the tree request has settled.
C21_ForzadaDescarga ==
    /\ EnCurso("intervalo") => tareas["intervalo"].forzarRecarga
    /\ (ult.t = "intervalo" /\ ult.via # "") => ult.forzarRecarga
    /\ (ult.forzarRecarga /\ ult.via # "") =>
          /\ ult.via \in {"descarga", "red", "fallback", "error"}
          /\ ult.via = "descarga" =>
                /\ tareas[ult.t].pc = "arbol"
                /\ tareas[ult.t].forzarRecarga
                /\ ~ult.cambio

\* A rebuild of the timer callback goes on to the download although the
\* version it has just fetched is stored with a record younger than the TTL
C21_Testigo ==
    /\ ult.t = "intervalo" /\ ult.forzarRecarga /\ ult.via = "descarga"
    /\ ult.versionActual = Token(remoteVersion)
    /\ ult.habiaIndice /\ ult.habiaMeta
    /\ ult.edad >= 0 /\ ult.edad < TTL_CACHE_MS
    /\ Len(imagenIndex) > 0
    /\ tareas["intervalo"].pc = "arbol"
\* ----------------------------------------------------------------------- C22
\* A step only a failed request can take: of a build's version request, of a
\* tree download, or of the version request of a poll
FalloDeRed ==
    \/ \E t \in {"inicio", "intervalo"} :
          RespuestaVersion(t, FALSE) /\ ~RespuestaVersion(t, TRUE)
    \/ \E t \in {"inicio", "intervalo"} :
          /\ \E escrituras \in {0, 3} : RespuestaArbol(t, FALSE, escrituras)
          /\ ~\E escrituras \in {0, 3} : RespuestaArbol(t, TRUE, escrituras)
    \/ RespuestaCheck("intervalo", FALSE) /\ ~RespuestaCheck("intervalo", TRUE)

\* The watcher is idle and the held version is the server's
VigilanteAlDia ==
    /\ tareas["intervalo"].pc = "libre"
    /\ driveTreeVersion = Token(remoteVersion)

\* What a step of the timer callback may do
PasoDeSondeo ==
    LET pc  == tareas["intervalo"].pc
        pc2 == tareas'["intervalo"].pc
    IN  /\ (pc = "check" /\ pc2 # "check" /\ driveTreeVersion = Token(remoteVersion))
              => (/\ pc2 = "libre"
                  /\ UNCHANGED <<imagenIndex, aliasIndex, driveTreeVersion, storage>>)
        /\ (pc = "check" /\ pc2 = "version") => driveTreeVersion # Token(remoteVersion)
        /\ (pc = "arbol" /\ pc2 # "arbol") => pc2 = "libre"

\* C22: if from some point on the timer stays registered (the page is not
\* loaded again) and no request fails, then, the server's version being
\* fixed once it has published its last one, the held version is eventually
\* the server's for good and the watcher is idle again and again with the
\* held version equal to the server's.  And on every step: a poll whose
\* version request settles
\* while the held version is the server's returns to idle with the index,
\* the alias index, the held version and storage untouched; a poll goes on
\* to a rebuild only when the versions differ, and the rebuild ends in idle.
C22_VigilanteConverge ==
    /\ ((<>[][~FalloDeRed]_vars) /\ <>[]actualizacionInterval)
          => (/\ []<>VigilanteAlDia
              /\ <>[](driveTreeVersion = Token(remoteVersion)))
    /\ [][PasoDeSondeo]_vars

\* A poll saw the second version, its rebuild downloaded and installed it,
\* and the watcher is idle again with the timer registered
C22_Testigo ==
    /\ actualizacionInterval
    /\ ult.t = "intervalo" /\ ult.via = "red" /\ ult.versionActual = Token(remoteVersion)
    /\ remoteVersion > 1
    /\ VigilanteAlDia
    /\ og.indice = <<"red", Token(remoteVersion), remoteVersion>>
\* ----------------------------------------------------------------------- C23
\* The folders of a payload, region after region
RECURSIVE Aplanar(_, _)
Aplanar(nodos, i) ==
    IF i > Len(nodos) THEN <<>> ELSE nodos[i].children \o Aplanar(nodos, i + 1)

\* The file has an identifier and a URL
ArchivoValido(item) ==
    ~item.nulo /\ Truthy(FileId(item)) /\ Truthy(FileUrl(item, FileId(item)))

\* The entries of the files of a folder that have both
Entradas(carpeta) ==
    LET validos == SelectSeq(carpeta.children, ArchivoValido)
    IN  [n \in 1..Len(validos) |->
            [name |-> Coalesce(validos[n].n, validos[n].name),
             url  |-> FileUrl(validos[n], FileId(validos[n])),
             size |-> Coalesce(validos[n].s, validos[n].size)]]

\* The folder resolves to a key and has a file with identifier and URL
Aporta(carpeta) ==
    /\ ~carpeta.nulo
    /\ Truthy(ClaveDeCarpeta(carpeta))
    /\ Len(Entradas(carpeta)) > 0

\* The positions of the folders of cs that resolve to the key k
Resuelven(cs, k) ==
    {j \in 1..Len(cs) : Truthy(ClaveDeCarpeta(cs[j])) /\ ClaveDeCarpeta(cs[j]).v = k}

\* C23: in the primary index a network build installs, a key is present if
\* and only if some folder of the payload resolving to it has a file with
\* both an identifier and a URL; every key maps to a non-empty entry
\* sequence, which is the sequence of such files of one folder resolving to
\* the key, in the folder's order; and no key is there twice.
C23_ClaveSiiAporta ==
    og.indice[1] = "red" =>
       LET cs == Aplanar(ArbolDe(og.indice[3]).structure.children, 1)
       IN  /\ \A j \in 1..Len(cs) :
                 Aporta(cs[j]) => MapHas(imagenIndex, ClaveDeCarpeta(cs[j]).v)
           /\ \A i \in 1..Len(imagenIndex) :
                 /\ Len(imagenIndex[i].v) > 0
                 /\ \E j \in Resuelven(cs, imagenIndex[i].k) :
                       Aporta(cs[j]) /\ imagenIndex[i].v = Entradas(cs[j])
                 /\ \A i2 \in 1..Len(imagenIndex) :
                       imagenIndex[i2].k = imagenIndex[i].k => i2 = i

\* The index built from the payload with parts missing: the folder whose
\* files lack identifier or URL is not there, and the key two folders
\* resolve to holds the two files of the second one
C23_Testigo ==
    /\ og.indice = <<"red", Token(4), 4>>
    /\ ult.via = "red"
    /\ Len(imagenIndex) = 2
    /\ ~MapHas(imagenIndex, <<"b", "a">>)
    /\ Len(MapGet(imagenIndex, <<"c", "d">>)) = 2
\* ----------------------------------------------------------------------- C24
\* The folder is in the index and declares an alias
DeclaraAlias(carpeta) == Aporta(carpeta) /\ Truthy(carpeta.alias)

\* C24 as stated: in the maps a network build installs, every alias maps to
\* a key of the primary index, and it was recorded for a folder whose alias
\* is distinct from its key.
C24_AliasDistintoDeClave ==
    og.indice[1] = "red" =>
       LET cs == Aplanar(ArbolDe(og.indice[3]).structure.children, 1)
       IN  \A i \in 1..Len(aliasIndex) :
              /\ MapHas(imagenIndex, aliasIndex[i].v)
              /\ \E j \in Resuelven(cs, aliasIndex[i].v) :
                    /\ DeclaraAlias(cs[j])
                    /\ toLowerCase(cs[j].alias.v) = aliasIndex[i].k
                    /\ cs[j].alias.v # aliasIndex[i].v

\* C24 amended: every alias maps to a key of the primary index of the same
\* build; an alias is recorded, under its lower-cased text and once, exactly
\* for the folders that are in the index and declare a non-empty alias,
\* whether or not the alias differs from the key of the folder.
C24_AliasAClavePresente ==
    og.indice[1] = "red" =>
       LET cs == Aplanar(ArbolDe(og.indice[3]).structure.children, 1)
       IN  /\ og.alias = og.indice
           /\ \A i \in 1..Len(aliasIndex) :
                 /\ MapHas(imagenIndex, aliasIndex[i].v)
                 /\ \E j \in Resuelven(cs, aliasIndex[i].v) :
                       /\ DeclaraAlias(cs[j])
                       /\ toLowerCase(cs[j].alias.v) = aliasIndex[i].k
                 /\ \A i2 \in 1..Len(aliasIndex) :
                       aliasIndex[i2].k = aliasIndex[i].k => i2 = i
           /\ \A j \in 1..Len(cs) :
                 DeclaraAlias(cs[j]) => MapHas(aliasIndex, toLowerCase(cs[j].alias.v))

\* The build of the payload with parts missing: the alias equal to its
\* folder's key is recorded, the aliases of the folder without a key and of
\* the folder without a usable file are not
C24_Testigo ==
    /\ og.indice = <<"red", Token(4), 4>>
    /\ og.alias = og.indice
    /\ MapGet(aliasIndex, <<"a", "b">>) = <<"a", "b">>
    /\ MapGet(aliasIndex, <<"q">>) = <<"c", "d">>
    /\ ~MapHas(aliasIndex, <<"p">>)
    /\ ~MapHas(aliasIndex, <<"l">>)
\* ----------------------------------------------------------------------- C25
\* The folder has files, no key field, and a name (text, or missing) in
\* which the key pattern does not occur
SinPatron(carpeta) ==
    /\ ~carpeta.nulo
    /\ Len(carpeta.children) > 0
    /\ carpeta.k.t \in {"null", "undef"}
    /\ Coalesce(carpeta.name, Str(<<>>)).t = "str"
    /\ PatronExec(Coalesce(carpeta.name, Str(<<>>)).v) = <<>>

\* The name of such a folder as the lookup would normalize it
NombreNorm(carpeta) == toLowerCase(trim(Coalesce(carpeta.name, Str(<<>>)).v))

\* The number of files with identifier and URL in the folders of cs at the
\* positions js
RECURSIVE SumaEntradas(_, _)
SumaEntradas(cs, js) ==
    IF js = {} THEN 0
    ELSE LET j == CHOOSE x \in js : TRUE
         IN  Len(Entradas(cs[j])) + SumaEntradas(cs, js \ {j})

\* The metadata record of the build that has just saved
MetaGuardada == getItem(storage, ClaveMeta(ult.versionActual))

\* A network build has just saved its three records
AcabaDeGuardar == ult.via = "red" /\ ult.ahora >= 0

\* C25 as stated: a folder with no key field whose name does not contain
\* the pattern is skipped: no key of the index is due to such a folder, and
\* the counts saved with the build leave out such folders and their files.
C25_SinPatronSeSalta ==
    og.indice[1] = "red" =>
       LET cs == Aplanar(ArbolDe(og.indice[3]).structure.children, 1)
           cuentan == {j \in 1..Len(cs) : Aporta(cs[j]) /\ ~SinPatron(cs[j])}
       IN  /\ \A i \in 1..Len(imagenIndex) :
                 \E j \in Resuelven(cs, imagenIndex[i].k) : j \in cuentan
           /\ AcabaDeGuardar =>
                 /\ MetaGuardada.carpetas = Cardinality(cuentan)
                 /\ MetaGuardada.archivos = SumaEntradas(cs, cuentan)

\* C25 amended: a folder with no key field whose name is missing or blank
\* is skipped: it gives no key, and neither it nor its files are counted.
\* A folder with no key field whose name is not blank and does not contain
\* the pattern is indexed under its name, trimmed and in lower case, when it
\* has a file with identifier and URL, and is counted with its files.  The
\* counts saved are the number of folders that entered the index and the
\* number of their files with identifier and URL.
C25_SinNombreSeSalta ==
    og.indice[1] = "red" =>
       LET cs == Aplanar(ArbolDe(og.indice[3]).structure.children, 1)
           blancas == {j \in 1..Len(cs) : SinPatron(cs[j]) /\ NombreNorm(cs[j]) = <<>>}
           cuentan == {j \in 1..Len(cs) : Aporta(cs[j])}
       IN  /\ \A i \in 1..Len(imagenIndex) : imagenIndex[i].k # <<>>
           /\ \A j \in blancas : j \notin cuentan
           /\ \A j \in 1..Len(cs) :
                 (/\ SinPatron(cs[j]) /\ NombreNorm(cs[j]) # <<>>
                  /\ Len(Entradas(cs[j])) > 0)
                    => (MapHas(imagenIndex, NombreNorm(cs[j])) /\ j \in cuentan)
           /\ AcabaDeGuardar =>
                 /\ MetaGuardada.carpetas = Cardinality(cuentan)
                 /\ MetaGuardada.archivos = SumaEntradas(cs, cuentan)

\* The build of the second payload has saved: the folder named " Xz " is
\* indexed under "xz", the folder with a blank name is not counted, nor is
\* its file
C25_Testigo ==
    /\ og.indice = <<"red", Token(2), 2>>
    /\ AcabaDeGuardar
    /\ MapHas(imagenIndex, <<"x", "z">>)
    /\ MetaGuardada.carpetas = 5
    /\ MetaGuardada.archivos = 6
\* ----------------------------------------------------------------------- C26
\* The folder would be indexed by a walk that reached it and recorded it:
\* it resolves to a key, has a file with identifier and URL, and its alias
\* is text or absent
BienFormada(carpeta) ==
    Aporta(carpeta) /\ carpeta.alias.t \in {"str", "undef", "null"}

\* C26: a build whose download succeeded completes from the network with
\* success, whatever malformed region, folder or file the payload holds
\* (children missing, key and name missing, file identifier or URL missing,
\* a null entry, an alias that is not text), and the index it installs has
\* the key of every well-formed folder of that payload.  (The payload is
\* that of the remote version, which does not change here.)
C26_MalformadoSeSalta ==
    ult.descargaOk =>
       LET cs == Aplanar(ArbolDe(remoteVersion).structure.children, 1)
       IN  /\ ult.via = "red" /\ ult.success
           /\ og.indice[3] = remoteVersion
           /\ \A j \in 1..Len(cs) :
                 BienFormada(cs[j]) => MapHas(imagenIndex, ClaveDeCarpeta(cs[j]).v)
\* ----------------------------------------------------------------------- C27
\* The step in which the build of task t ends because its tree request
\* failed
FallaDescarga(t) ==
    /\ tareas[t].pc = "arbol" /\ tareas'[t].pc # "arbol"
    /\ ult'.t = t /\ ~ult'.descargaOk /\ ult'.via \in {"fallback", "error"}

\* C27: a build whose tree download fails while a non-empty index is held
\* leaves the primary index, the alias index and the version as they were.
C27_FalloConservaIndice ==
    [][(Len(imagenIndex) > 0 /\ \E t \in DOMAIN tareas : FallaDescarga(t))
          => UNCHANGED <<imagenIndex, aliasIndex, driveTreeVersion>>]_vars
\* ----------------------------------------------------------------------- C28
\* The remote version a label names; 0 for null, 'unknown' and any other
\* text
NumeroDe(etiqueta) ==
    LET vs == {v \in 1..(MaxVersion + Len(Arboles)) : Token(v) = etiqueta}
    IN  IF vs = {} THEN 0 ELSE CHOOSE v \in vs : TRUE

\* The version in the key of a persisted index or alias record
VersionDeClave(key) == key[Len(key)]

\* C28: the version held in memory names no remote version newer than the
\* tree the held primary index and the held alias index were built from,
\* and the version in the key of every persisted index or alias record none
\* newer than the tree its payload was built from.
C28_EtiquetaNoAdelanta ==
    /\ NumeroDe(driveTreeVersion) <= og.indice[3]
    /\ NumeroDe(driveTreeVersion) <= og.alias[3]
    /\ \A i \in 1..Len(storage) :
          storage[i].val.kind = "json" =>
             NumeroDe(VersionDeClave(storage[i].key)) <= storage[i].val.de
\* ----------------------------------------------------------------------- C29
\* The candidates for q at the least distance from it
Minimas(indice, q) ==
    {i \in Candidatas(indice, q) :
        \A j \in Candidatas(indice, q) : Distancia(indice, q, i) <= Distancia(indice, q, j)}

\* The first of them in the order of the index
PrimeraMinima(indice, q) ==
    CHOOSE i \in Minimas(indice, q) : \A j \in Minimas(indice, q) : i <= j

\* C29: when Tier 3 answers, its answer is the URL list of the stored key
\* that comes first in the order of the primary index among the keys in a
\* substring relation with the query at the least length difference: a
\* later key at the same difference does not replace it.  Stated for every
\* query of ConsultasArbol in every state, and for the lookups made on the
\* index as they found it.
C29_EmpatePrimera ==
    /\ \A c \in ConsultasArbol :
          LET q == toLowerCase(trim(c))
              r == Niveles123(imagenIndex, aliasIndex, q)
          IN  r.tier = "parcial" =>
                 /\ Minimas(imagenIndex, q) # {}
                 /\ r.urls = Urls(imagenIndex[PrimeraMinima(imagenIndex, q)].v)
    /\ (busq.fase = "hecha" /\ busq.construcciones = 0 /\ busq.tier = "parcial") =>
          /\ Minimas(imagenIndex, busq.norm) # {}
          /\ busq.urls = Urls(imagenIndex[PrimeraMinima(imagenIndex, busq.norm)].v)

\* "abcd" against the index whose first key is "cd" and second "ab": both
\* are at distance 2, and the lookup answered with the files of "cd"
C29_Testigo ==
    /\ busq.fase = "hecha" /\ busq.construcciones = 0
    /\ busq.norm = <<"a", "b", "c", "d">>
    /\ busq.tier = "parcial"
    /\ Cardinality(Minimas(imagenIndex, busq.norm)) = 2
    /\ MapPos(imagenIndex, <<"c", "d">>) = 1
    /\ MapPos(imagenIndex, <<"a", "b">>) = 2
    /\ busq.urls = Urls(MapGet(imagenIndex, <<"c", "d">>))
    /\ busq.urls # Urls(MapGet(imagenIndex, <<"a", "b">>))
\* ----------------------------------------------------------------------- C30
\* The callback of a timer starts in this step
EmpiezaSondeo == tareas["intervalo"].pc = "libre" /\ tareas'["intervalo"].pc = "check"

\* C30: whatever the number of calls of iniciarActualizacionAutomatica, at
\* most one interval timer is alive in the page, and one is alive exactly
\* when actualizacionInterval holds an id; and the callback never starts
\* less than a full period after it last started: one period has at most
\* one version check of the watcher.
C30_UnSoloTemporizador ==
    /\ [](/\ Len(temporizadores) <= 1
          /\ actualizacionInterval <=> (Len(temporizadores) = 1))
    /\ [][EmpiezaSondeo => desdeSondeo = INTERVALO_SONDEO]_vars

\* The callback ran one unit ago and the function has been called again
\* since: a single timer is alive, with a full period to run
C30_Testigo ==
    /\ actualizacionInterval
    /\ temporizadores = <<INTERVALO_SONDEO>>
    /\ desdeSondeo = 1
====
